---- MODULE Spec2Model ----
(***************************************************************************)
(* A model of nem-price-bot: the Store (src/db/repository.rs), the         *)
(* Analyzer (src/engine/analyzer.rs), the Notifier (src/bot/notifier.rs),  *)
(* the /alert and region handlers (src/bot/commands.rs, callbacks.rs) and  *)
(* the Scheduler's loops (src/engine/scheduler.rs).                        *)
(*                                                                         *)
(* Time.  `clock` is the UTC wall clock in minutes, `secs` the seconds     *)
(* within the minute (only the price loop sleeps for seconds).  The        *)
(* strings the code compares (RFC 3339 UTC for sent_at / fetched_at,       *)
(* "YYYY/MM/DD HH:MM:SS" market-local time for interval_time /             *)
(* forecast_time / published_at) compare in the order of the instants      *)
(* they denote; they are modelled by the minute they denote.               *)
(***************************************************************************)
EXTENDS Integers, Sequences, FiniteSets, TLC

(* ------------------------------ bounds --------------------------------- *)

\* Number of chats that talk to the bot.
MaxUsers == 2
\* Longest list of price records handed to one round.
MaxBatch == 2
\* Longest list of forecast records stored by one forecast fetch.
MaxFcBatch == 2
\* Number of price rounds.
MaxRounds == 2
\* Number of forecast fetches.
MaxFcFetches == 1
\* The clock advances in steps of Quantum minutes, MaxTicks times at most.
Quantum == 30
MaxTicks == 1
\* The sends of a run take MaxDelays * Quantum minutes at most.
MaxDelays == 2
\* Rounds, forecast fetches and half hours of the runs of the forecast alerts.
FcAlertRounds == 2
FcAlertFetches == 2
FcAlertTicks == 2
\* Handlers of /alert that run at the same time.
RaceHandlers == 2
\* Minutes of the runs of the daily summary, and their price rounds.
RunMinutes == 2
RunRounds == 1
\* Rounds and half hours of the runs in which queries of the Store fail.
StorageRounds == 3
StorageTicks == 1
\* Rounds and forecast fetches of the runs with paused users.
TargetRounds == 1
TargetFetches == 1
\* Rounds and half hours of the runs that look at the order of the alerts.
OrderRounds == 2
OrderTicks == 2
\* Slots the price loop waits for, in the runs that start at any second of the hour.
SlotWaits == 2
\* Slots the forecast loop waits for, in such runs.
ForecastSlotWaits == 2
\* Rounds, forecast points of the coming hour, minutes between the two rounds and
\* minutes one send may take, in the runs of the second rate-limit check.
LayerRounds == 2
LayerPoints == 11
LayerPause == 59
LayerDelay == 1
\* Forecast points of the coming hour and price rounds, in the hourly-cap runs.
CapFcPoints == 11
CapRounds == 1
\* Price rounds in the runs of the price table.
StoreRounds == 2
\* Price rounds and clock steps in the runs of one high-price episode.
EpisodeRounds == 3
EpisodeTicks == 2
\* Number of sends the MessageSink refuses.
MaxSendFailures == 1
\* Price slots the price loop attempts.
MaxSlots == 2
\* Minutes of wall clock in the runs of the summary loop, and the minutes by which
\* a tick of that loop may come late.
SummaryMinutes == 2200
SummaryStall == 45
\* Minutes a tick of the summary loop may come late when the body of the previous
\* one (the summary task, the cleanup) ran for hours.
LongStall == 240
\* Rounds and half hours of the runs in which a price meets a threshold.
BoundaryRounds == 3
BoundaryTicks == 7
\* Rounds, minutes between two rounds and minutes of wall clock of the replayed rounds.
ReplayRounds == 3
ReplayPause == 10
ReplayMinutes == 40
\* Rounds of the runs with a capped user, and the minutes between two of them.
CappedRounds == 2
CappedPause == 40
\* Rounds of the runs that store the first price of a region.
FirstRounds == 2
\* Forecast fetches and half hours of the runs that publish a forecast again.
PublishFetches == 2
PublishTicks == 1
\* Half hours of the runs in which users select a region again.
UserTicks == 2
\* Rounds, forecast fetches and cleanups of the runs over the retention periods; the
\* events lie a week apart within the first weeks, or a quarter later.
CleanupRounds == 2
CleanupFetches == 2
MaxCleanups == 2
ShortGapDays == 7
ShortHorizonDays == 14
LongGapDays == 90
HorizonDays == 104
\* Lines of a parsed file; calls of the fetcher in one run.
MaxLines == 3
MaxFetchCalls == 2
\* Rounds and ticks before a call of the analyzer on its own, and such calls.
AnalysisRounds == 1
AnalysisTicks == 1
MaxAnalyses == 1
\* Rounds of the runs around local midnight; the minutes from the start (10:00
\* local) to the late evening, the pause between two rounds, and the end of the run.
MidnightRounds == 2
EveningMinutes == 830
MidnightPause == 10
MidnightHorizon == 860
\* Slots of the price loop and fetches of the forecast loop after a startup.
StartupSlots == 1
StartupLoopForecasts == 1

(* ------------------------- program constants --------------------------- *)

\* notifier.rs:10 and analyzer.rs:131: at most 10 alerts per user and hour.
MaxAlertsPerHour == 10
\* repository.rs:231: count_alerts_this_hour looks back one hour.
HourMinutes == 60
\* analyzer.rs:31,54,65: dedup window of spike, high_price and low_price.
PriceDedupMinutes == 30
\* analyzer.rs:78,114: dedup window of all_clear and forecast.
LongDedupMinutes == 60
\* analyzer.rs:77: an all_clear follows a high_price of the last 180 minutes.
WasHighMinutes == 180
\* analyzer.rs:28: a spike is a move of more than 100 $/MWh.
SpikeDelta == 100
\* analyzer.rs:17,99: Australia/Brisbane is UTC+10 all year.
UtcOffsetMinutes == 600
\* analyzer.rs:101: forecasts of the coming hour.
ForecastHorizonMinutes == 60
\* Minutes of a civil day ("%Y/%m/%d" prefix of a local time string).
DayMinutes == 1440
\* price_fetch_loop: attempts per slot, seconds slept after a Stale result.
PriceRetentionDays == 90
ForecastRetentionDays == 7
MaxAttempts == 5
StaleSleepSeconds == 15
\* wait_until_next_price_slot: the slot length and the offset after the boundary.
SlotSeconds == 300
SlotOffsetSeconds == 90
\* run: the local hour of the daily summary, the local hour that resets the flag.
SummaryHour == 21
ResetHour == 0
\* cmd_alert: the accepted ranges of /alert high and /alert low.
HighAlertMin == 50
HighAlertMax == 15000
LowAlertMin == -1000
LowAlertMax == 50
\* parser: the accepted range of a price.
PriceMin == -1000
PriceMax == 17500
\* fetch_dispatch, fetch_predispatch: the attempts, the last attempt's number, and the
\* seconds slept between two attempts.
FetchAttempts == 3
LastAttempt == 2
RetrySleepSeconds == 30
\* wait_until_next_forecast_slot: the slot length in minutes and in seconds.
ForecastSlotMinutes == 30
ForecastSlotSeconds == 1800

REGIONS == <<"NSW1", "VIC1", "QLD1", "SA1", "TAS1">>

AlertTypes == {"high_price", "low_price", "spike", "all_clear", "forecast"}

(* --------------------------- input domains ----------------------------- *)

ChatIds == 1..MaxUsers
\* The chats that talk to the bot in the runs of one chat.
OneChat == {1}
MaxClock == Quantum * MaxTicks

\* chrono::Utc::now().with_timezone(&Brisbane): the local minute of a UTC minute.
LocalTime(t) == t + UtcOffsetMinutes
\* format("%Y/%m/%d"): the civil day of a local minute.
DatePrefix(lt) == lt \div DayMinutes

\* Regions, prices and settlement times of the price records of a batch.
BatchRegions == {"NSW1"}
BatchPrices == {-50, 250}
\* Prices of the records fetch_dispatch answers in the runs of the price loop.
LoopPrices == {250}
IntervalTimes == {LocalTime(0) - 5, LocalTime(0)}
\* Regions the chats select.
UserRegions == {"NSW1", "VIC1"}
PriceRecords == [region : BatchRegions, price : BatchPrices, interval_time : IntervalTimes]

\* Forecast records of a pre-dispatch file.
FcRegions == {"NSW1"}
FcPrices == {300}
FcTimes == {LocalTime(0) + 30, LocalTime(0) + 60}
ForecastRecords == [region : FcRegions, forecast_time : FcTimes, price : FcPrices]

\* All sequences over S of length 1..n.
SeqsUpTo(S, n) == UNION {[1..k -> S] : k \in 1..n}

None == [some |-> FALSE]
Some(v) == [some |-> TRUE, val |-> v]

Abs(x) == IF x < 0 THEN -x ELSE x

SetMax(S) == CHOOSE x \in S : \A y \in S : y <= x
SetMin(S) == CHOOSE x \in S : \A y \in S : x <= y

VARIABLES
    users,          \* table users: chat_id -> row (present = the row exists)
    price_history,  \* table price_history: a set of rows
    forecast,       \* table forecast: a set of rows
    alert_log,      \* table alert_log: rows in insertion (id) order
    clock,          \* UTC wall clock, minutes
    rpc,            \* process_prices: "idle" or "send" (inside send_alerts)
    batch,          \* process_prices: its `prices` argument
    stage,          \* process_prices: 0 = price alerts, i = forecast alerts of REGIONS[i]
    queue,          \* send_alerts: the alerts not yet handled
    fc_fetches,     \* number of forecast fetches so far
    failures,       \* number of sends the MessageSink refused so far
    rounds,         \* number of price rounds started so far
    last,           \* send_alerts: the alert of its latest iteration and what became of it
    secs,           \* UTC wall clock, seconds within the minute
    loop,           \* price_fetch_loop: its position and locals
    summary,        \* run: summary_sent_today, the starts of the daily summary task, and
                    \* the days on which a tick saw local hour 21
    cleanups,       \* run: the calls of cleanup_old_records so far, TRUE for Ok
    handlers,       \* cmd_alert handlers between their get_user and their update
    done,           \* the latest finished chat command and its reply
    parse,          \* the parser: the text it is given, the function called, its result
    fetch,          \* fetch_dispatch / fetch_predispatch: its position, locals and result
    analysis,       \* the latest call of analyze / analyze_forecasts outside a round
    boot,           \* run: the statement it is at, the tasks spawned, the fetches made
    sending         \* send_alerts: the alerts it was called with, the alert_log then read

schedulerVars == <<secs, loop, summary, cleanups>>
commandVars == <<handlers, done>>
dataVars == <<parse, fetch, analysis, boot, sending>>

vars == <<users, price_history, forecast, alert_log, clock, rpc, batch, stage, queue,
          fc_fetches, failures, rounds, last, schedulerVars, commandVars, dataVars>>

(* ------------------------------- Store --------------------------------- *)

\* migrations/001_init.sql: users.high_alert / low_alert column defaults.
DefaultHighAlert == 150
DefaultLowAlert == 0

NoUser == [present |-> FALSE, region |-> "NSW1", high_alert |-> DefaultHighAlert,
           low_alert |-> DefaultLowAlert, is_active |-> TRUE, created_at |-> 0,
           updated_at |-> 0]

\* An upsert_user that replaces the row (INSERT OR REPLACE).
UpsertUserReplace(us, chat_id, region, now) ==
    [us EXCEPT ![chat_id] = [NoUser EXCEPT !.present = TRUE, !.region = region,
                                           !.created_at = now, !.updated_at = now]]

\* Db::upsert_user: INSERT ... ON CONFLICT(chat_id) DO UPDATE SET region, updated_at.
UpsertUser(us, chat_id, region, now) ==
    IF us[chat_id].present
    THEN [us EXCEPT ![chat_id].region = region, ![chat_id].updated_at = now]
    ELSE [us EXCEPT ![chat_id] = [NoUser EXCEPT !.present = TRUE, !.region = region,
                                                !.created_at = now, !.updated_at = now]]

\* Db::get_user
GetUser(us, chat_id) == IF us[chat_id].present THEN Some(us[chat_id]) ELSE None

\* Db::update_high_alert / update_low_alert / set_active: UPDATE ... WHERE chat_id.
UpdateHighAlert(us, chat_id, v) ==
    IF us[chat_id].present THEN [us EXCEPT ![chat_id].high_alert = v] ELSE us
UpdateLowAlert(us, chat_id, v) ==
    IF us[chat_id].present THEN [us EXCEPT ![chat_id].low_alert = v] ELSE us
\* A set_active that changes no row.
SetActiveNoRow(us, chat_id, active) == us

SetActive(us, chat_id, active) ==
    IF us[chat_id].present THEN [us EXCEPT ![chat_id].is_active = active] ELSE us

\* migrations/001_init.sql: UNIQUE(region, interval_time) on price_history.
PriceKey(r) == <<r.region, r.interval_time>>

\* An insert_price that replaces the stored row (INSERT OR REPLACE).
InsertPriceReplace(ph, rec, now, ok) ==
    IF ~ok THEN ph
    ELSE {r \in ph : PriceKey(r) # PriceKey(rec)}
         \cup {[region |-> rec.region, price_mwh |-> rec.price,
                 interval_time |-> rec.interval_time, fetched_at |-> now]}

\* Db::insert_price: INSERT OR IGNORE; `ok` is whether the statement succeeded.
InsertPrice(ph, rec, now, ok) ==
    IF ~ok \/ (\E r \in ph : PriceKey(r) = PriceKey(rec))
    THEN ph
    ELSE ph \cup {[region |-> rec.region, price_mwh |-> rec.price,
                   interval_time |-> rec.interval_time, fetched_at |-> now]}

\* Db::get_latest_price: ORDER BY interval_time DESC LIMIT 1.
GetLatestPrice(ph, region) ==
    LET rows == {r \in ph : r.region = region}
    IN  IF rows = {} THEN None
        ELSE Some(CHOOSE r \in rows : \A q \in rows : q.interval_time <= r.interval_time)

\* A get_previous_price that answers 0 when there is no second row.
GetPreviousPriceOrZero(ph, region) ==
    LET rows == {r \in ph : r.region = region}
        latest == CHOOSE r \in rows : \A q \in rows : q.interval_time <= r.interval_time
        rest == rows \ {latest}
    IN  IF Cardinality(rows) < 2 THEN Some(0)
        ELSE Some((CHOOSE r \in rest : \A q \in rest : q.interval_time <= r.interval_time).price_mwh)

\* Db::get_previous_price: ORDER BY interval_time DESC LIMIT 1 OFFSET 1.
GetPreviousPrice(ph, region) ==
    LET rows == {r \in ph : r.region = region}
        latest == CHOOSE r \in rows : \A q \in rows : q.interval_time <= r.interval_time
        rest == rows \ {latest}
    IN  IF Cardinality(rows) < 2 THEN None
        ELSE Some((CHOOSE r \in rest : \A q \in rest : q.interval_time <= r.interval_time).price_mwh)

\* Db::get_daily_range: MIN, MAX of the rows whose interval_time has the prefix.
GetDailyRange(ph, region, today_prefix) ==
    LET ps == {r.price_mwh : r \in {q \in ph : q.region = region
                                       /\ DatePrefix(q.interval_time) = today_prefix}}
    IN  IF ps = {} THEN None ELSE Some(<<SetMin(ps), SetMax(ps)>>)

\* migrations/001_init.sql: UNIQUE(region, forecast_time, published_at) on forecast.
ForecastKey(r) == <<r.region, r.forecast_time, r.published_at>>

\* Db::insert_forecast: INSERT OR IGNORE.
InsertForecast(fc, rec, published_at, now) ==
    LET row == [region |-> rec.region, forecast_time |-> rec.forecast_time,
                price_mwh |-> rec.price, published_at |-> published_at, fetched_at |-> now]
    IN  IF \E r \in fc : ForecastKey(r) = ForecastKey(row) THEN fc ELSE fc \cup {row}

\* An order that puts the earliest publication of a forecast_time first.
ForecastOrderAsc(r, q) ==
    \/ r.forecast_time < q.forecast_time
    \/ r.forecast_time = q.forecast_time /\ r.published_at <= q.published_at

\* Db::get_forecasts, ORDER BY forecast_time, published_at DESC: r comes before q.
ForecastOrder(r, q) ==
    \/ r.forecast_time < q.forecast_time
    \/ r.forecast_time = q.forecast_time /\ r.published_at >= q.published_at

\* The rows of the SELECT of get_forecasts, in its order.
RECURSIVE OrderedRows(_)
OrderedRows(rows) ==
    IF rows = {} THEN << >>
    ELSE LET r == CHOOSE x \in rows : \A q \in rows : ForecastOrder(x, q)
         IN  <<r>> \o OrderedRows(rows \ {r})

\* Db::get_forecasts, lines 181-183: filter(|(t, _)| seen.insert(t.clone())).
RECURSIVE KeepFirstSeen(_, _)
KeepFirstSeen(rows, seen) ==
    IF rows = << >> THEN << >>
    ELSE IF Head(rows).forecast_time \in seen THEN KeepFirstSeen(Tail(rows), seen)
    ELSE <<<<Head(rows).forecast_time, Head(rows).price_mwh>>>>
             \o KeepFirstSeen(Tail(rows), seen \cup {Head(rows).forecast_time})

\* Db::get_forecasts: the rows with forecast_time in (after, before], ordered, and
\* of every forecast_time the first one.
GetForecasts(fc, region, after, before) ==
    KeepFirstSeen(OrderedRows({r \in fc : r.region = region /\ r.forecast_time > after
                                          /\ r.forecast_time <= before}),
                  {})

\* A query for the users of a region that does not look at is_active.
GetUsersByRegion(us, region) ==
    SelectSeq([i \in 1..MaxUsers |-> i], LAMBDA c : us[c].present /\ us[c].region = region)

\* Db::get_active_users_by_region: the rows in chat_id (rowid) order.
GetActiveUsersByRegion(us, region) ==
    SelectSeq([i \in 1..MaxUsers |-> i],
              LAMBDA c : us[c].present /\ us[c].region = region /\ us[c].is_active)

\* A log_alert that writes its row twice.
LogAlertTwice(log, chat_id, alert_type, price, region, now) ==
    log \o <<[chat_id |-> chat_id, alert_type |-> alert_type, price_mwh |-> price,
              region |-> region, sent_at |-> now],
             [chat_id |-> chat_id, alert_type |-> alert_type, price_mwh |-> price,
              region |-> region, sent_at |-> now]>>

\* Db::log_alert: INSERT INTO alert_log, sent_at = now.
LogAlert(log, chat_id, alert_type, price, region, now) ==
    Append(log, [chat_id |-> chat_id, alert_type |-> alert_type, price_mwh |-> price,
                 region |-> region, sent_at |-> now])

\* A was_alert_sent_recently that looks back a third of the window.
WasAlertSentRecentlyThird(log, now, chat_id, alert_type, minutes) ==
    \E i \in DOMAIN log : /\ log[i].chat_id = chat_id
                          /\ log[i].alert_type = alert_type
                          /\ log[i].sent_at > now - (minutes \div 3)

\* Db::was_alert_sent_recently: COUNT(*) ... sent_at > now - minutes, > 0.
WasAlertSentRecently(log, now, chat_id, alert_type, minutes) ==
    \E i \in DOMAIN log : /\ log[i].chat_id = chat_id
                          /\ log[i].alert_type = alert_type
                          /\ log[i].sent_at > now - minutes

\* A count_alerts_this_hour that looks back half an hour.
CountAlertsThisHourHalf(log, now, chat_id) ==
    Cardinality({i \in DOMAIN log : log[i].chat_id = chat_id
                                    /\ log[i].sent_at > now - (HourMinutes \div 2)})

\* Db::count_alerts_this_hour: COUNT(*) ... sent_at > now - 1 hour.
CountAlertsThisHour(log, now, chat_id) ==
    Cardinality({i \in DOMAIN log : log[i].chat_id = chat_id
                                    /\ log[i].sent_at > now - HourMinutes})

(* ------------------------------- Parser -------------------------------- *)

\* A text is a sequence of characters. The characters the parser looks at are
\* the separators below; every other character group is one word.
Blank == " "
Quote == "\""
Comma == ","
Newline == "\n"

\* f64 values: a finite number, or one of the three that are not finite.
F64(n) == [finite |-> TRUE, nan |-> FALSE, v |-> n]
NaN == [finite |-> FALSE, nan |-> TRUE, v |-> 0]
Infinity == [finite |-> FALSE, nan |-> FALSE, v |-> 1]
NegInfinity == [finite |-> FALSE, nan |-> FALSE, v |-> -1]

\* str::parse::<f64> on the words of the inputs.
F64Words ==
    [w \in {"100", "200", "300", "-1000", "-1001", "17500", "17501", "5", "7",
            "inf", "-inf", "NaN"} |->
        CASE w = "100" -> F64(100) [] w = "200" -> F64(200) [] w = "300" -> F64(300)
          [] w = "-1000" -> F64(-1000) [] w = "-1001" -> F64(-1001)
          [] w = "17500" -> F64(17500) [] w = "17501" -> F64(17501)
          [] w = "5" -> F64(5) [] w = "7" -> F64(7)
          [] w = "inf" -> Infinity [] w = "-inf" -> NegInfinity [] w = "NaN" -> NaN]

\* .parse().unwrap_or(f64::NAN)
ParseF64(f) ==
    IF Len(f) = 1 /\ f[1] \in DOMAIN F64Words THEN F64Words[f[1]] ELSE NaN

\* f64::is_finite
IsFinite(x) == x.finite

FirstAt(text, sep) ==
    IF \E i \in 1..Len(text) : text[i] = sep
    THEN CHOOSE i \in 1..Len(text) : text[i] = sep /\ \A j \in 1..(i - 1) : text[j] # sep
    ELSE 0

\* str::split: the pieces between the separators, empty pieces included.
RECURSIVE SplitOn(_, _)
SplitOn(text, sep) ==
    LET i == FirstAt(text, sep)
    IN  IF i = 0 THEN <<text>>
        ELSE <<SubSeq(text, 1, i - 1)>> \o SplitOn(SubSeq(text, i + 1, Len(text)), sep)

\* str::lines: split on the line feed; no empty last line after a final line feed.
Lines(text) ==
    LET pieces == SplitOn(text, Newline)
    IN  IF pieces[Len(pieces)] = << >> THEN SubSeq(pieces, 1, Len(pieces) - 1) ELSE pieces

RECURSIVE TrimStart(_, _)
TrimStart(f, ch) == IF f # << >> /\ Head(f) = ch THEN TrimStart(Tail(f), ch) ELSE f

RECURSIVE TrimEnd(_, _)
TrimEnd(f, ch) ==
    IF f # << >> /\ f[Len(f)] = ch THEN TrimEnd(SubSeq(f, 1, Len(f) - 1), ch) ELSE f

\* str::trim_matches
TrimMatches(f, ch) == TrimEnd(TrimStart(f, ch), ch)

\* str::trim
Trim(f) == TrimMatches(f, Blank)

\* f.trim().trim_matches('"')
Unquoted(f) == TrimMatches(Trim(f), Quote)

\* The two parsers differ in the rows they look at and in the time column.
DispatchRows == [table |-> <<"DISPATCH">>, subs |-> {<<"PRICE">>},
                 times |-> <<(<<"SETTLEMENTDATE">>)>>]
PredispatchRows == [table |-> <<"PREDISPATCH">>, subs |-> {<<"PRICE">>, <<"REGION_PRICES">>},
                    times |-> <<(<<"DATETIME">>), (<<"PERIODID">>)>>]

IsRow(fields, tag, rows) ==
    /\ Len(fields) >= 3
    /\ Trim(fields[1]) = <<tag>>
    /\ Trim(fields[2]) = rows.table
    /\ Trim(fields[3]) \in rows.subs

\* An I row that adds its columns to the map it finds.
HeaderColumnsKept(col_map, fields) ==
    LET names == DOMAIN col_map \cup {Unquoted(fields[i]) : i \in 1..Len(fields)}
        Here(n) == {i \in 1..Len(fields) : Unquoted(fields[i]) = n}
    IN  [n \in names |->
            IF Here(n) # {} THEN (CHOOSE i \in Here(n) : \A j \in Here(n) : j <= i) - 1
            ELSE col_map[n]]

\* col_map.clear(); then insert every field's name with its index, a later
\* field of the same name replacing the earlier one.
HeaderColumns(col_map, fields) ==
    LET names == {Unquoted(fields[i]) : i \in 1..Len(fields)}
        Here(n) == {i \in 1..Len(fields) : Unquoted(fields[i]) = n}
    IN  [n \in names |-> (CHOOSE i \in Here(n) : \A j \in Here(n) : j <= i) - 1]

NoColumns == [n \in {} |-> 0]

\* col_map.get that answers with the column's usual place when the map is empty.
GetColumnOrUsual(col_map, names) ==
    IF col_map = NoColumns THEN [some |-> TRUE, v |-> IF names[1] = <<"REGIONID">> THEN 4
                                                      ELSE IF names[1] = <<"RRP">> THEN 5
                                                      ELSE 3]
    ELSE IF \E k \in 1..Len(names) : names[k] \in DOMAIN col_map
    THEN [some |-> TRUE,
          v |-> col_map[names[CHOOSE k \in 1..Len(names) :
                                  /\ names[k] \in DOMAIN col_map
                                  /\ \A j \in 1..(k - 1) : names[j] \notin DOMAIN col_map]]]
    ELSE None

\* col_map.get(a).or(col_map.get(b)).copied(): the first of the names the map has.
GetColumn(col_map, names) ==
    IF \E k \in 1..Len(names) : names[k] \in DOMAIN col_map
    THEN [some |-> TRUE,
          v |-> col_map[names[CHOOSE k \in 1..Len(names) :
                                  /\ names[k] \in DOMAIN col_map
                                  /\ \A j \in 1..(k - 1) : names[j] \notin DOMAIN col_map]]]
    ELSE None

\* The body of `if tag == "D" ...`: the records after this row.
DataRow(col_map, fields, records, rows) ==
    LET ri == GetColumn(col_map, <<(<<"REGIONID">>)>>)
        pi == GetColumn(col_map, <<(<<"RRP">>)>>)
        ti == GetColumn(col_map, rows.times)
    IN  IF ri.some /\ pi.some /\ ti.some
        THEN IF ri.v < Len(fields) /\ pi.v < Len(fields) /\ ti.v < Len(fields)
             THEN LET region == Unquoted(fields[ri.v + 1])
                      price == ParseF64(Unquoted(fields[pi.v + 1]))
                      time == Unquoted(fields[ti.v + 1])
                  IN  IF IsFinite(price) /\ price.v >= PriceMin /\ price.v <= PriceMax
                      THEN Append(records, [region |-> region, price |-> price.v,
                                            time |-> time])
                      ELSE records
             ELSE records
        ELSE records

\* The `for line in csv.lines()` loop of both parsers.
RECURSIVE ParseLines(_, _, _, _)
ParseLines(lines, col_map, records, rows) ==
    IF lines = << >> THEN records
    ELSE LET fields == SplitOn(Head(lines), Comma)
             map == IF IsRow(fields, "I", rows) THEN HeaderColumns(col_map, fields)
                    ELSE col_map
             recs == IF IsRow(fields, "D", rows) THEN DataRow(map, fields, records, rows)
                     ELSE records
         IN  ParseLines(Tail(lines), map, recs, rows)

\* parser::parse_dispatch
ParseDispatch(csv) == ParseLines(Lines(csv), NoColumns, << >>, DispatchRows)

\* parser::parse_predispatch
ParsePredispatch(csv) == ParseLines(Lines(csv), NoColumns, << >>, PredispatchRows)

(* --------------------------- parser inputs ------------------------------ *)

W(w) == <<w>>

RECURSIVE JoinWith(_, _)
JoinWith(pieces, sep) ==
    IF pieces = << >> THEN << >>
    ELSE IF Len(pieces) = 1 THEN pieces[1]
    ELSE pieces[1] \o <<sep>> \o JoinWith(Tail(pieces), sep)

Row(fields) == JoinWith(fields, Comma)

\* A file: every line ends with a line feed.
Text(lines) == IF lines = << >> THEN << >> ELSE JoinWith(lines, Newline) \o <<Newline>>

IntervalText == <<Quote, "2025/01/01", Blank, "00:05:00", Quote>>

\* Lines of a dispatch file: three headers (plain; reordered with a quoted and
\* padded name; without RRP), data rows for each layout, with prices at and past
\* the limits, not a number and not finite, a row that is too short, and a row
\* of another table.
DispatchLines ==
    { Row(<<W("I"), W("DISPATCH"), W("PRICE"), W("SETTLEMENTDATE"), W("REGIONID"),
            W("RRP")>>),
      Row(<<W("I"), W("DISPATCH"), W("PRICE"), <<Quote, "REGIONID", Quote>>,
            <<Blank, Quote, "RRP", Quote, Blank>>, W("SETTLEMENTDATE")>>),
      Row(<<W("I"), W("DISPATCH"), W("PRICE"), W("SETTLEMENTDATE"), W("REGIONID")>>),
      Row(<<W("D"), W("DISPATCH"), W("PRICE"), IntervalText, W("NSW1"), W("100")>>),
      Row(<<W("D"), W("DISPATCH"), W("PRICE"), W("VIC1"), W("17501"), IntervalText>>),
      Row(<<W("D"), W("DISPATCH"), W("PRICE"), W("QLD1"), W("-1000"), IntervalText>>),
      Row(<<W("D"), W("DISPATCH"), W("PRICE"), IntervalText, W("SA1")>>),
      Row(<<<<Blank, "D">>, W("DISPATCH"), <<"PRICE", Blank>>, W("TAS1"), W("inf"),
            IntervalText>>),
      Row(<<W("D"), W("DISPATCH"), W("REGIONSUM"), IntervalText, W("NSW1"), W("100")>>) }

\* Lines of a pre-dispatch file: headers of both subtypes, with DATETIME, with
\* PERIODID, and with both; data rows of both subtypes; a line of two fields.
PredispatchLines ==
    { Row(<<W("I"), W("PREDISPATCH"), W("REGION_PRICES"), W("REGIONID"), W("RRP"),
            W("DATETIME")>>),
      Row(<<W("I"), W("PREDISPATCH"), W("PRICE"), W("PERIODID"), W("REGIONID"),
            W("RRP")>>),
      Row(<<W("I"), W("PREDISPATCH"), W("PRICE"), W("REGIONID"), W("RRP"), W("PERIODID"),
            W("DATETIME")>>),
      Row(<<W("D"), W("PREDISPATCH"), W("REGION_PRICES"), W("NSW1"), W("300"),
            IntervalText>>),
      Row(<<W("D"), W("PREDISPATCH"), W("PRICE"), W("5"), W("VIC1"), W("NaN")>>),
      Row(<<W("D"), W("PREDISPATCH"), W("PRICE"), W("NSW1"), W("200"), W("7"),
            IntervalText>>),
      Row(<<W("D"), W("PREDISPATCH"), W("REGION_PRICES"), W("SA1"), W("-1001"),
            IntervalText>>),
      Row(<<W("D"), W("PREDISPATCH")>>) }

\* The files of at most MaxLines lines, all of one kind.
Texts(Lns, n) == {Text(ls) : ls \in SeqsUpTo(Lns, n) \cup {<< >>}}

(* ------------------------------ Analyzer ------------------------------- *)

RECURSIVE Flatten(_)
Flatten(ss) == IF ss = << >> THEN << >> ELSE Head(ss) \o Flatten(Tail(ss))

\* messages::format_*: the text is determined by the arguments; it is kept as them.
FormatSpikeAlert(region, prev, current) == <<"PRICE SPIKE", region, prev, current>>
FormatHighAlert(region, price, threshold, daily_range) ==
    <<"HIGH PRICE", region, price, threshold, daily_range>>
FormatLowAlert(region, price) == <<"LOW PRICE", region, price>>
FormatAllClear(region, price, peak) == <<"PRICES NORMAL", region, price, peak>>
FormatForecastAlert(region, fc_price, fc_time, current_price) ==
    <<"HEADS UP", region, fc_price, fc_time, current_price>>

PendingAlert(chat_id, text, alert_type, price, region) ==
    [chat_id |-> chat_id, text |-> text, alert_type |-> alert_type, price |-> price,
     region |-> region]

\* Whether the queries of the Store succeed during a call, by what they are made
\* for: the dedup query of can_alert, its count of the hour (also the one of
\* send_alerts), the two queries of the all-clear, and the queries that return
\* rows (previous price, users of a region, daily range, forecasts).
QueryOutcomes ==
    [dup : BOOLEAN, count : BOOLEAN, was_high : BOOLEAN, cleared : BOOLEAN, rows : BOOLEAN]

AllOk == [dup |-> TRUE, count |-> TRUE, was_high |-> TRUE, cleared |-> TRUE, rows |-> TRUE]
NoneOk == [dup |-> FALSE, count |-> FALSE, was_high |-> FALSE, cleared |-> FALSE,
           rows |-> FALSE]

\* A can_alert that does not count the rows of the hour.
CanAlertNoCap(log, now, chat_id, alert_type, dedup_minutes, qok) ==
    ~(IF qok.dup THEN WasAlertSentRecently(log, now, chat_id, alert_type, dedup_minutes) ELSE TRUE)

\* analyzer::can_alert.  qok: which of the Store's queries succeed
\* (unwrap_or(true) and unwrap_or(10) are what an Err turns into).
CanAlert(log, now, chat_id, alert_type, dedup_minutes, qok) ==
    LET not_dup == ~(IF qok.dup THEN WasAlertSentRecently(log, now, chat_id, alert_type, dedup_minutes)
                            ELSE TRUE)
        under_limit == (IF qok.count THEN CountAlertsThisHour(log, now, chat_id)
                               ELSE MaxAlertsPerHour) < MaxAlertsPerHour
    IN  not_dup /\ under_limit

\* analyze, lines 25-43: spike detection of one record.
SpikeAlerts(us, ph, log, now, rec, qok) ==
    LET prev_price == IF qok.rows THEN GetPreviousPrice(ph, rec.region) ELSE None
        active == IF qok.rows THEN GetActiveUsersByRegion(us, rec.region) ELSE << >>
    IN  IF prev_price.some /\ Abs(rec.price - prev_price.val) > SpikeDelta
        THEN Flatten([i \in DOMAIN active |->
                IF CanAlert(log, now, active[i], "spike", PriceDedupMinutes, qok)
                THEN <<PendingAlert(active[i],
                                    FormatSpikeAlert(rec.region, prev_price.val, rec.price),
                                    "spike", rec.price, rec.region)>>
                ELSE << >>])
        ELSE << >>

\* An all-clear that needs the price strictly below the threshold.
AllClearAlertsBelow(user, chat_id, log, now, rec, daily_range, qok) ==
    IF rec.price < user.high_alert /\ WasAlertSentRecently(log, now, chat_id, "high_price",
                                                           WasHighMinutes)
       /\ ~WasAlertSentRecently(log, now, chat_id, "all_clear", LongDedupMinutes)
    THEN <<PendingAlert(chat_id,
                        FormatAllClear(rec.region, rec.price,
                                       IF daily_range.some THEN Some(daily_range.val[2]) ELSE None),
                        "all_clear", rec.price, rec.region)>>
    ELSE << >>

\* analyze, lines 75-89: the all-clear of one user and one record.
AllClearAlerts(user, chat_id, log, now, rec, daily_range, qok) ==
    IF rec.price <= user.high_alert
    THEN LET was_high == IF qok.was_high THEN WasAlertSentRecently(log, now, chat_id, "high_price",
                                                          WasHighMinutes)
                                ELSE FALSE
             already_cleared == IF qok.cleared THEN WasAlertSentRecently(log, now, chat_id, "all_clear",
                                                                 LongDedupMinutes)
                                       ELSE FALSE
             peak == IF daily_range.some THEN Some(daily_range.val[2]) ELSE None
         IN  IF was_high /\ ~already_cleared
             THEN <<PendingAlert(chat_id, FormatAllClear(rec.region, rec.price, peak),
                                 "all_clear", rec.price, rec.region)>>
             ELSE << >>
    ELSE << >>

\* Threshold alerts of one user and one record with the all-clear in front.
UserAlertsClearFirst(user, chat_id, log, now, rec, daily_range, qok) ==
    AllClearAlerts(user, chat_id, log, now, rec, daily_range, qok)
    \o
    (IF rec.price > user.high_alert
        /\ CanAlert(log, now, chat_id, "high_price", PriceDedupMinutes, qok)
     THEN <<PendingAlert(chat_id,
                         FormatHighAlert(rec.region, rec.price, user.high_alert, daily_range),
                         "high_price", rec.price, rec.region)>>
     ELSE << >>)
    \o
    (IF rec.price < user.low_alert
        /\ CanAlert(log, now, chat_id, "low_price", PriceDedupMinutes, qok)
     THEN <<PendingAlert(chat_id, FormatLowAlert(rec.region, rec.price),
                         "low_price", rec.price, rec.region)>>
     ELSE << >>)

\* analyze, lines 52-90: the threshold alerts of one user and one record.
UserAlerts(user, chat_id, log, now, rec, daily_range, qok) ==
    (IF rec.price > user.high_alert
        /\ CanAlert(log, now, chat_id, "high_price", PriceDedupMinutes, qok)
     THEN <<PendingAlert(chat_id,
                         FormatHighAlert(rec.region, rec.price, user.high_alert, daily_range),
                         "high_price", rec.price, rec.region)>>
     ELSE << >>)
    \o
    (IF rec.price < user.low_alert
        /\ CanAlert(log, now, chat_id, "low_price", PriceDedupMinutes, qok)
     THEN <<PendingAlert(chat_id, FormatLowAlert(rec.region, rec.price),
                         "low_price", rec.price, rec.region)>>
     ELSE << >>)
    \o
    AllClearAlerts(user, chat_id, log, now, rec, daily_range, qok)

\* analyze, lines 45-90: the threshold alerts of one record.
ThresholdAlerts(us, ph, log, now, rec, qok) ==
    LET active == IF qok.rows THEN GetActiveUsersByRegion(us, rec.region) ELSE << >>
        daily_range == IF qok.rows THEN GetDailyRange(ph, rec.region, DatePrefix(LocalTime(now)))
                              ELSE None
    IN  Flatten([i \in DOMAIN active |->
            UserAlerts(us[active[i]], active[i], log, now, rec, daily_range, qok)])

\* analyzer::analyze
Analyze(us, ph, log, now, prices, qok) ==
    Flatten([i \in DOMAIN prices |->
        SpikeAlerts(us, ph, log, now, prices[i], qok)
        \o ThresholdAlerts(us, ph, log, now, prices[i], qok)])

\* An analyze_forecasts that alerts from the threshold on.
AnalyzeForecastsAtThreshold(us, fc, log, now, region, current_price, qok) ==
    LET now_str == LocalTime(now)
        later_str == LocalTime(now + ForecastHorizonMinutes)
        forecasts == IF qok.rows THEN GetForecasts(fc, region, now_str, later_str) ELSE << >>
        active == IF qok.rows THEN GetActiveUsersByRegion(us, region) ELSE << >>
    IN  Flatten([i \in DOMAIN forecasts |->
            Flatten([j \in DOMAIN active |->
                IF forecasts[i][2] >= us[active[j]].high_alert
                   /\ CanAlert(log, now, active[j], "forecast", LongDedupMinutes, qok)
                THEN <<PendingAlert(active[j],
                                    FormatForecastAlert(region, forecasts[i][2], forecasts[i][1],
                                                        current_price),
                                    "forecast", forecasts[i][2], region)>>
                ELSE << >>])])

\* analyzer::analyze_forecasts
AnalyzeForecasts(us, fc, log, now, region, current_price, qok) ==
    LET now_str == LocalTime(now)
        later_str == LocalTime(now + ForecastHorizonMinutes)
        forecasts == IF qok.rows THEN GetForecasts(fc, region, now_str, later_str) ELSE << >>
        active == IF qok.rows THEN GetActiveUsersByRegion(us, region) ELSE << >>
    IN  Flatten([i \in DOMAIN forecasts |->
            Flatten([j \in DOMAIN active |->
                IF forecasts[i][2] > us[active[j]].high_alert
                   /\ CanAlert(log, now, active[j], "forecast", LongDedupMinutes, qok)
                THEN <<PendingAlert(active[j],
                                    FormatForecastAlert(region, forecasts[i][2], forecasts[i][1],
                                                        current_price),
                                    "forecast", forecasts[i][2], region)>>
                ELSE << >>])])

\* The tables that the SQL of a Store method changes (repository.rs: INSERT,
\* UPDATE, DELETE); a method of SELECTs changes none.
TablesWritten(method) ==
    IF method \in {"upsert_user", "update_high_alert", "update_low_alert", "set_active"}
    THEN {"users"}
    ELSE IF method = "insert_price" THEN {"price_history"}
    ELSE IF method = "insert_forecast" THEN {"forecast"}
    ELSE IF method = "log_alert" THEN {"alert_log"}
    ELSE IF method = "cleanup_old_records" THEN {"price_history", "alert_log", "forecast"}
    ELSE {}

\* can_alert: the Store methods it calls.
CanAlertCalls == {"was_alert_sent_recently", "count_alerts_this_hour"}

\* An analyze that logs the alerts it emits.
AnalyzeCallsLogging ==
    {"get_previous_price", "get_active_users_by_region", "get_daily_range",
     "was_alert_sent_recently", "log_alert"} \cup CanAlertCalls

\* analyze: the Store methods it calls.
AnalyzeCalls ==
    {"get_previous_price", "get_active_users_by_region", "get_daily_range",
     "was_alert_sent_recently"} \cup CanAlertCalls

\* analyze_forecasts: the Store methods it calls.
AnalyzeForecastsCalls == {"get_forecasts", "get_active_users_by_region"} \cup CanAlertCalls

\* The Store after a function that made the given calls and returned the given
\* alerts: a table that none of the calls writes is as before; a written table
\* may have gained the row of the first alert, or lost its rows.
StoreAfter(calls, alerts) ==
    LET written == UNION {TablesWritten(m) : m \in calls}
    IN  /\ users' \in IF "users" \in written THEN {users, [c \in ChatIds |-> NoUser]}
                     ELSE {users}
        /\ price_history' \in IF "price_history" \in written THEN {price_history, {}}
                             ELSE {price_history}
        /\ forecast' \in IF "forecast" \in written THEN {forecast, {}} ELSE {forecast}
        /\ alert_log' \in IF "alert_log" \in written /\ alerts # << >>
                         THEN {LogAlert(alert_log, alerts[1].chat_id, alerts[1].alert_type,
                                        alerts[1].price, alerts[1].region, clock)}
                         ELSE {alert_log}

\* A call of analyzer::analyze on the Store as it is, with any list of prices.
CallAnalyze(Batches, maxCalls) ==
    /\ rpc = "idle"
    /\ analysis.calls < maxCalls
    /\ \E prices \in Batches, qok \in {AllOk, NoneOk} :
          LET alerts == Analyze(users, price_history, alert_log, clock, prices, qok)
          IN  /\ analysis' = [fn |-> "analyze", calls |-> analysis.calls + 1,
                              alerts |-> alerts, prices |-> prices]
              /\ StoreAfter(AnalyzeCalls, alerts)
    /\ UNCHANGED <<clock, rpc, batch, stage, queue, fc_fetches, failures, rounds, last,
                   schedulerVars, commandVars, parse, fetch, boot,
                   sending>>

\* A call of analyzer::analyze_forecasts on the Store as it is.
CallAnalyzeForecasts(Regions, Currents, maxCalls) ==
    /\ rpc = "idle"
    /\ analysis.calls < maxCalls
    /\ \E region \in Regions, current_price \in Currents, qok \in {AllOk, NoneOk} :
          LET alerts == AnalyzeForecasts(users, forecast, alert_log, clock, region,
                                         current_price, qok)
          IN  /\ analysis' = [fn |-> "analyze_forecasts", calls |-> analysis.calls + 1,
                              alerts |-> alerts, region |-> region]
              /\ StoreAfter(AnalyzeForecastsCalls, alerts)
    /\ UNCHANGED <<clock, rpc, batch, stage, queue, fc_fetches, failures, rounds, last,
                   schedulerVars, commandVars, parse, fetch, boot,
                   sending>>

(* ------------------------------ Notifier ------------------------------- *)

\* A send_alerts whose check lets the eleventh alert through.
RateLimitedOffByOne(log, now, chat_id, qok) ==
    (IF qok.count THEN CountAlertsThisHour(log, now, chat_id) ELSE MaxAlertsPerHour)
        > MaxAlertsPerHour

\* send_alerts, lines 9-11: the second rate-limit check (an Err counts as 10).
RateLimited(log, now, chat_id, qok) ==
    (IF qok.count THEN CountAlertsThisHour(log, now, chat_id) ELSE MaxAlertsPerHour)
        >= MaxAlertsPerHour

(* ----------------------- Scheduler: process_prices --------------------- *)

\* process_prices, lines 234-236: insert every record of the batch.
RECURSIVE InsertPrices(_, _, _, _)
InsertPrices(ph, prices, now, ok) ==
    IF prices = << >> THEN ph
    ELSE InsertPrices(InsertPrice(ph, Head(prices), now, ok), Tail(prices), now, ok)

\* process_prices, lines 243-247: the first record of the region, or 0.0.
CurrentPrice(prices, region) ==
    IF \E i \in DOMAIN prices : prices[i].region = region
    THEN prices[SetMin({i \in DOMAIN prices : prices[i].region = region})].price
    ELSE 0

\* process_prices, lines 242-252: the next region, from REGIONS[i] on, whose
\* forecast analysis yields alerts; none ends the round.
RECURSIVE ForecastStage(_, _, _, _, _, _, _)
ForecastStage(i, us, fc, log, now, prices, qok) ==
    IF i > Len(REGIONS) THEN [rpc |-> "idle", stage |-> 0, queue |-> << >>]
    ELSE LET fc_alerts == AnalyzeForecasts(us, fc, log, now, REGIONS[i],
                                           CurrentPrice(prices, REGIONS[i]), qok)
         IN  IF fc_alerts # << >>
             THEN [rpc |-> "send", stage |-> i, queue |-> fc_alerts]
             ELSE ForecastStage(i + 1, us, fc, log, now, prices, qok)

\* No send_alerts is running.
NoSending == [alerts |-> << >>, rows |-> 0, at |-> 0]

\* process_prices, lines 238-240 and 248-251: send_alerts is called with the
\* alerts the analyzer returned; the analyzer read the alert_log of `rows` rows
\* at minute `at`.
Sending(nxt, log, now) ==
    IF nxt.rpc = "send" THEN [alerts |-> nxt.queue, rows |-> Len(log), at |-> now]
    ELSE NoSending

\* process_prices up to its first send: insert, analyze, and either enter
\* send_alerts or go on to the forecast analysis.
ProcessPrices(prices, iok, qok) ==
    LET ph == InsertPrices(price_history, prices, clock, iok)
        alerts == Analyze(users, ph, alert_log, clock, prices, qok)
        nxt == IF alerts # << >>
               THEN [rpc |-> "send", stage |-> 0, queue |-> alerts]
               ELSE ForecastStage(1, users, forecast, alert_log, clock, prices, qok)
    IN  /\ price_history' = ph
        /\ rpc' = nxt.rpc
        /\ stage' = nxt.stage
        /\ queue' = nxt.queue
        /\ batch' = IF nxt.rpc = "idle" THEN << >> ELSE prices
        /\ sending' = Sending(nxt, alert_log, clock)
        /\ UNCHANGED <<users, forecast, alert_log, clock>>

\* A price round starts: process_prices is called with one of Batches, and the
\* queries of its analyses end as one of Queries says.
StartRoundWith(Queries, Batches, maxRounds) ==
    /\ rpc = "idle"
    /\ rounds < maxRounds
    /\ \E prices \in Batches, qok \in Queries : ProcessPrices(prices, TRUE, qok)
    /\ rounds' = rounds + 1
    /\ UNCHANGED <<fc_fetches, failures, last, schedulerVars, commandVars, parse, fetch,
                   analysis, boot>>

\* A price round in which every query of the Store succeeds.
StartRound(Batches, maxRounds) == StartRoundWith({AllOk}, Batches, maxRounds)

SendOutcomes == {"ok", "forbidden", "error"}

\* send_alerts: one iteration of its loop, and what process_prices does when the
\* loop ends.  outcome is the MessageSink's answer, d the minutes the send took.
SendAlertWith(Queries, Outcomes, Delays, maxFailures) ==
    /\ rpc = "send"
    /\ \E qok \in Queries, outcome \in Outcomes, d \in Delays :
          LET alert == Head(queue)
              limited == RateLimited(alert_log, clock, alert.chat_id, qok)
              now == IF limited THEN clock ELSE clock + d
              log == IF ~limited /\ outcome = "ok"
                     THEN LogAlert(alert_log, alert.chat_id, alert.alert_type, alert.price,
                                   alert.region, now)
                     ELSE alert_log
              us == IF ~limited /\ outcome = "forbidden"
                    THEN SetActive(users, alert.chat_id, FALSE)
                    ELSE users
              nxt == IF Tail(queue) # << >>
                     THEN [rpc |-> "send", stage |-> stage, queue |-> Tail(queue)]
                     ELSE ForecastStage(stage + 1, us, forecast, log, now, batch, qok)
          IN  /\ d > 0 => now <= Quantum * MaxDelays
              /\ limited => outcome = "ok" /\ d = 0
              /\ outcome # "ok" => failures < maxFailures
              /\ failures' = IF outcome # "ok" THEN failures + 1 ELSE failures
              /\ clock' = now
              /\ alert_log' = log
              /\ users' = us
              /\ rpc' = nxt.rpc
              /\ stage' = nxt.stage
              /\ queue' = nxt.queue
              /\ batch' = IF nxt.rpc = "idle" THEN << >> ELSE batch
              /\ last' = [alert |-> alert,
                          result |-> IF limited THEN "dropped" ELSE outcome]
              /\ sending' = IF Tail(queue) # << >> THEN sending ELSE Sending(nxt, log, now)
    /\ UNCHANGED <<price_history, forecast, fc_fetches, rounds, schedulerVars, commandVars,
                   parse, fetch, analysis, boot>>

\* An iteration of send_alerts in which every query of the Store succeeds.
SendAlert(Outcomes, Delays, maxFailures) == SendAlertWith({AllOk}, Outcomes, Delays, maxFailures)

\* forecast_fetch, Ok branch: store the records, published_at = local now.
RECURSIVE InsertForecasts(_, _, _, _)
InsertForecasts(fc, recs, published_at, now) ==
    IF recs = << >> THEN fc
    ELSE InsertForecasts(InsertForecast(fc, Head(recs), published_at, now), Tail(recs),
                         published_at, now)

ForecastFetch(FcBatches, maxFetches) ==
    /\ rpc = "idle"
    /\ fc_fetches < maxFetches
    /\ \E recs \in FcBatches :
          forecast' = InsertForecasts(forecast, recs, LocalTime(clock), clock)
    /\ fc_fetches' = fc_fetches + 1
    /\ UNCHANGED <<users, price_history, alert_log, clock, rpc, batch, stage, queue, failures,
                   rounds, last, schedulerVars, commandVars, dataVars>>

\* Time passes between two rounds.
Tick(maxClock) ==
    /\ rpc = "idle"
    /\ clock + Quantum <= maxClock
    /\ clock' = clock + Quantum
    /\ UNCHANGED <<users, price_history, forecast, alert_log, rpc, batch, stage, queue,
                   fc_fetches, failures, rounds, last, schedulerVars, commandVars, dataVars>>

\* Time passes between two rounds, d minutes of it.
Pause(d, maxClock) ==
    /\ rpc = "idle"
    /\ clock + d <= maxClock
    /\ clock' = clock + d
    /\ UNCHANGED <<users, price_history, forecast, alert_log, rpc, batch, stage, queue,
                   fc_fetches, failures, rounds, last, schedulerVars, commandVars, dataVars>>

(* --------------------- Scheduler: price_fetch_loop --------------------- *)

\* The wall clock n seconds later, as <<minutes, seconds>>.
After(n) == <<(clock * 60 + secs + n) \div 60, (clock * 60 + secs + n) % 60>>

\* A wait_until_next_price_slot that takes the slot of this very second for a
\* coming one.
WaitUntilNextPriceSlotAtTarget(min, sec) ==
    LET current_secs == min * 60 + sec
        base == min - (min % 5)
        target_secs == base * 60 + SlotOffsetSeconds
        wait == IF target_secs >= current_secs
                THEN target_secs - current_secs
                ELSE target_secs + SlotSeconds - current_secs
    IN  IF wait > 1 THEN wait ELSE 1

\* wait_until_next_price_slot: seconds until 90 s after a 5-minute boundary.
WaitUntilNextPriceSlot(min, sec) ==
    LET current_secs == min * 60 + sec
        base == min - (min % 5)
        target_secs == base * 60 + SlotOffsetSeconds
        wait == IF target_secs > current_secs
                THEN target_secs - current_secs
                ELSE target_secs + SlotSeconds - current_secs
    IN  IF wait > 1 THEN wait ELSE 1

\* An expected_settlement_time that rounds the minute to the nearest multiple of 5.
ExpectedSettlementTimeNearest(now) ==
    LET lt == LocalTime(now)
        min == lt % 60
        base == min + 2 - ((min + 2) % 5)
    IN  lt - min + base

\* expected_settlement_time: local now with the minute floored to a multiple of 5.
ExpectedSettlementTime(now) ==
    LET lt == LocalTime(now)
        min == lt % 60
        base == min - (min % 5)
    IN  lt - min + base

\* A price_fetch_checked that takes any non-empty answer for the expected interval.
HasAnyRecord(prices, expected_time) == prices # << >>

\* price_fetch_checked, line 190: prices.iter().any(|p| p.interval_time == expected_time)
HasExpected(prices, expected_time) ==
    \E i \in DOMAIN prices : prices[i].interval_time = expected_time

\* A price_fetch_loop that returns on FetchResult::Error.
AfterFetchExitOnError(result) ==
    IF result = "Stale" THEN "sleep" ELSE IF result = "Error" THEN "exit" ELSE "wait"

\* A price_fetch_loop that treats FetchResult::Error as it treats Stale.
AfterFetchRetryOnError(result) ==
    IF result \in {"Stale", "Error"} THEN "sleep" ELSE "wait"

\* price_fetch_loop, lines 144-154: Success and Error break, Stale sleeps.
AfterFetch(result) ==
    IF result = "Stale" THEN "sleep" ELSE "wait"

\* price_fetch_loop, lines 136-141: sleep until the slot, then note the expected time.
LoopWait(maxSlots) ==
    /\ boot.price_loop
    /\ loop.pc = "wait"
    /\ rpc = "idle"
    /\ loop.slots < maxSlots
    /\ LET t == After(WaitUntilNextPriceSlot(LocalTime(clock) % 60, secs))
       IN  /\ clock' = t[1]
           /\ secs' = t[2]
           /\ loop' = [pc |-> "fetch", attempt |-> 0, expected |-> ExpectedSettlementTime(t[1]),
                       fetches |-> 0, slots |-> loop.slots + 1, result |-> "none",
                       fetched |-> None]
    /\ UNCHANGED <<users, price_history, forecast, alert_log, rpc, batch, stage, queue,
                   fc_fetches, failures, rounds, last, summary, cleanups, commandVars, dataVars>>

\* What fetch_dispatch may answer in a slot: records of the expected interval and
\* of the one before.
DispatchAnswers(Prices, expected_time) ==
    SeqsUpTo([region : BatchRegions, price : Prices,
              interval_time : {expected_time - 5, expected_time}], MaxBatch) \cup {<< >>}

\* price_fetch_checked: fetch_dispatch answers Ok(prices) or Err.
LoopFetch(Prices) ==
    /\ boot.price_loop
    /\ loop.pc = "fetch"
    /\ rpc = "idle"
    /\ \/ \E prices \in DispatchAnswers(Prices, loop.expected) :
             LET result == IF HasExpected(prices, loop.expected) THEN "Success" ELSE "Stale"
             IN  /\ loop' = [loop EXCEPT !.pc = AfterFetch(result), !.result = result,
                                         !.fetches = @ + 1, !.fetched = Some(prices)]
                 /\ IF result = "Success"
                    THEN ProcessPrices(prices, TRUE, AllOk) /\ rounds' = rounds + 1
                    ELSE UNCHANGED <<users, price_history, forecast, alert_log, clock, rpc,
                                     batch, stage, queue, sending, rounds>>
       \/ /\ loop' = [loop EXCEPT !.pc = AfterFetch("Error"), !.result = "Error",
                                   !.fetches = @ + 1, !.fetched = None]
          /\ UNCHANGED <<users, price_history, forecast, alert_log, clock, rpc, batch, stage,
                         queue, sending, rounds>>
    /\ UNCHANGED <<fc_fetches, failures, last, secs, summary, cleanups, commandVars,
                   parse, fetch, analysis, boot>>

\* price_fetch_loop, line 151 and the end of the for: sleep 15 s, next attempt or give up.
LoopSleep ==
    /\ boot.price_loop
    /\ loop.pc = "sleep"
    /\ LET t == After(StaleSleepSeconds)
       IN  clock' = t[1] /\ secs' = t[2]
    /\ loop' = [loop EXCEPT !.attempt = @ + 1,
                            !.pc = IF loop.attempt + 1 < MaxAttempts THEN "fetch" ELSE "wait"]
    /\ UNCHANGED <<users, price_history, forecast, alert_log, rpc, batch, stage, queue,
                   fc_fetches, failures, rounds, last, summary, cleanups, commandVars, dataVars>>

\* The calls of the parser: each applies one parser to the text at hand.
CallParseDispatch ==
    /\ parse.fn = "none"
    /\ parse' = [parse EXCEPT !.fn = "parse_dispatch", !.records = ParseDispatch(parse.csv)]
    /\ UNCHANGED <<users, price_history, forecast, alert_log, clock, rpc, batch, stage, queue,
                   fc_fetches, failures, rounds, last, schedulerVars, commandVars, fetch,
                   analysis, boot,
                   sending>>

CallParsePredispatch ==
    /\ parse.fn = "none"
    /\ parse' = [parse EXCEPT !.fn = "parse_predispatch",
                              !.records = ParsePredispatch(parse.csv)]
    /\ UNCHANGED <<users, price_history, forecast, alert_log, clock, rpc, batch, stage, queue,
                   fc_fetches, failures, rounds, last, schedulerVars, commandVars, fetch,
                   analysis, boot,
                   sending>>

(* ------------------------------- Fetcher ------------------------------- *)

\* A fetcher that sleeps after every failed attempt, the last one too.
SleepsAfterEvery(attempt) == TRUE

\* fetch_dispatch, line 46: if attempt < 2 { sleep(30 s) }
SleepsAfter(attempt) == attempt < LastAttempt

\* The end of one pass of `for attempt in 0..3`: the next attempt, or the bail! after
\* the loop.
NextAttempt(f) ==
    IF f.attempt + 1 < FetchAttempts
    THEN [f EXCEPT !.pc = "attempt", !.attempt = @ + 1]
    ELSE [f EXCEPT !.pc = "returned", !.attempt = @ + 1, !.result = [ok |-> FALSE]]

\* A caller enters fetch_dispatch or fetch_predispatch.
FetchCall(Fns, maxCalls) ==
    /\ fetch.pc = "idle"
    /\ fetch.calls < maxCalls
    /\ \E fn \in Fns :
          fetch' = [pc |-> "attempt", fn |-> fn, attempt |-> 0, trace |-> << >>,
                    result |-> None, calls |-> fetch.calls + 1]
    /\ UNCHANGED <<users, price_history, forecast, alert_log, clock, rpc, batch, stage, queue,
                   fc_fetches, failures, rounds, last, schedulerVars, commandVars, parse,
                   analysis, boot,
                   sending>>

\* One fetch_latest_zip and the match on its result: Ok(csv) returns the parsed
\* records, Err(e) goes on to the sleep or to the end of the pass.
FetchLatestZip(Csvs) ==
    /\ fetch.pc = "attempt"
    /\ \/ \E csv \in Csvs :
             fetch' = [fetch EXCEPT
                          !.pc = "returned",
                          !.trace = Append(@, [ev |-> "ok", csv |-> csv]),
                          !.result = [ok |-> TRUE,
                                      records |-> IF fetch.fn = "fetch_dispatch"
                                                  THEN ParseDispatch(csv)
                                                  ELSE ParsePredispatch(csv)]]
       \/ LET failed == [fetch EXCEPT !.trace = Append(@, [ev |-> "err"])]
          IN  fetch' = IF SleepsAfter(fetch.attempt)
                       THEN [failed EXCEPT !.pc = "sleep"]
                       ELSE NextAttempt(failed)
    /\ UNCHANGED <<users, price_history, forecast, alert_log, clock, rpc, batch, stage, queue,
                   fc_fetches, failures, rounds, last, schedulerVars, commandVars, parse,
                   analysis, boot,
                   sending>>

\* tokio::time::sleep(30 s) between two attempts.
FetchSleep ==
    /\ fetch.pc = "sleep"
    /\ LET t == After(RetrySleepSeconds)
       IN  clock' = t[1] /\ secs' = t[2]
    /\ fetch' = NextAttempt([fetch EXCEPT
                                !.trace = Append(@, [ev |-> "sleep",
                                                     seconds |-> RetrySleepSeconds])])
    /\ UNCHANGED <<users, price_history, forecast, alert_log, rpc, batch, stage, queue,
                   fc_fetches, failures, rounds, last, loop, summary, cleanups, commandVars,
                   parse, analysis, boot,
                   sending>>

\* The caller takes the result.
FetchReturn ==
    /\ fetch.pc = "returned"
    /\ fetch' = [fetch EXCEPT !.pc = "idle"]
    /\ UNCHANGED <<users, price_history, forecast, alert_log, clock, rpc, batch, stage, queue,
                   fc_fetches, failures, rounds, last, schedulerVars, commandVars, parse,
                   analysis, boot,
                   sending>>

(* --------------------------- Scheduler: run ----------------------------- *)

\* A run that spawns the price loop before the startup fetches.
RunOrderSpawnFirst ==
    <<"spawn price_fetch_loop", "price_fetch_unchecked", "forecast_fetch",
      "spawn forecast_fetch_loop">>

\* run, lines 21-39: its statements before the select loop, in order.
RunOrder ==
    <<"price_fetch_unchecked", "forecast_fetch", "spawn price_fetch_loop",
      "spawn forecast_fetch_loop">>

\* The statement run is at; each starts when the one before has returned.
RunAt(statement) ==
    /\ boot.pc <= Len(RunOrder)
    /\ RunOrder[boot.pc] = statement
    /\ rpc = "idle"

\* A wait_until_next_forecast_slot that takes its base from the 5-minute
\* boundary of the price loop.
WaitUntilNextForecastSlotPriceBase(min, sec) ==
    LET current_secs == min * 60 + sec
        base == min - (min % 5)
        target_secs == base * 60 + SlotOffsetSeconds
        wait == IF target_secs > current_secs
                THEN target_secs - current_secs
                ELSE target_secs + ForecastSlotSeconds - current_secs
    IN  IF wait > 1 THEN wait ELSE 1

\* wait_until_next_forecast_slot: seconds until 90 s after a 30-minute boundary.
WaitUntilNextForecastSlot(min, sec) ==
    LET current_secs == min * 60 + sec
        base == min - (min % ForecastSlotMinutes)
        target_secs == base * 60 + SlotOffsetSeconds
        wait == IF target_secs > current_secs
                THEN target_secs - current_secs
                ELSE target_secs + ForecastSlotSeconds - current_secs
    IN  IF wait > 1 THEN wait ELSE 1

\* price_fetch_unchecked: fetch_dispatch answers Ok(prices), which are processed
\* as they are, or Err.
RunPriceFetchUnchecked(Answers) ==
    /\ RunAt("price_fetch_unchecked")
    /\ \/ \E prices \in Answers :
             /\ ProcessPrices(prices, TRUE, AllOk)
             /\ rounds' = rounds + 1
             /\ boot' = [boot EXCEPT !.pc = @ + 1, !.price_fetches = @ + 1,
                                     !.prices = Some(prices)]
       \/ /\ boot' = [boot EXCEPT !.pc = @ + 1, !.price_fetches = @ + 1, !.prices = None]
          /\ UNCHANGED <<users, price_history, forecast, alert_log, clock, rpc, batch, stage,
                         queue, rounds, sending>>
    /\ UNCHANGED <<fc_fetches, failures, last, schedulerVars, commandVars, parse, fetch,
                   analysis>>

\* forecast_fetch as a statement of run: fetch_predispatch answers Ok(forecasts)
\* or Err.
RunForecastFetch(FcBatches) ==
    /\ RunAt("forecast_fetch")
    /\ \/ \E recs \in FcBatches :
             forecast' = InsertForecasts(forecast, recs, LocalTime(clock), clock)
       \/ UNCHANGED forecast
    /\ boot' = [boot EXCEPT !.pc = @ + 1, !.forecast_fetches = @ + 1]
    /\ fc_fetches' = fc_fetches + 1
    /\ UNCHANGED <<users, price_history, alert_log, clock, rpc, batch, stage, queue, failures,
                   rounds, last, schedulerVars, commandVars, parse, fetch, analysis,
                   sending>>

\* tokio::spawn of one of the two loops.
RunSpawn ==
    /\ \/ /\ RunAt("spawn price_fetch_loop")
          /\ boot' = [boot EXCEPT !.pc = @ + 1, !.price_loop = TRUE]
       \/ /\ RunAt("spawn forecast_fetch_loop")
          /\ boot' = [boot EXCEPT !.pc = @ + 1, !.forecast_loop = TRUE]
    /\ UNCHANGED <<users, price_history, forecast, alert_log, clock, rpc, batch, stage, queue,
                   fc_fetches, failures, rounds, last, schedulerVars, commandVars, parse,
                   fetch, analysis,
                   sending>>

\* forecast_fetch_loop: sleep until the forecast slot, then forecast_fetch.
ForecastLoopFetch(FcBatches, maxFetches) ==
    /\ boot.forecast_loop
    /\ rpc = "idle"
    /\ boot.loop_forecasts < maxFetches
    /\ LET t == After(WaitUntilNextForecastSlot(LocalTime(clock) % 60, secs))
       IN  /\ clock' = t[1]
           /\ secs' = t[2]
           /\ \/ \E recs \in FcBatches :
                    forecast' = InsertForecasts(forecast, recs, LocalTime(t[1]), t[1])
              \/ UNCHANGED forecast
    /\ boot' = [boot EXCEPT !.loop_forecasts = @ + 1]
    /\ fc_fetches' = fc_fetches + 1
    /\ UNCHANGED <<users, price_history, alert_log, rpc, batch, stage, queue, failures,
                   rounds, last, loop, summary, cleanups, commandVars, parse, fetch, analysis,
                   sending>>

(* ------------------------ Scheduler: the cleanup ----------------------- *)

\* cleanup_old_records, lines 311-312: now - days.
Cutoff(now, days) == now - days * DayMinutes

\* DELETE FROM price_history WHERE fetched_at < cutoff.
DeleteOldPrices(ph, cutoff) == {r \in ph : ~(r.fetched_at < cutoff)}

\* DELETE FROM alert_log WHERE sent_at < cutoff.
DeleteOldAlerts(log, cutoff) == SelectSeq(log, LAMBDA r : ~(r.sent_at < cutoff))

\* A forecast DELETE that uses the 90-day cut-off.
DeleteOldForecastsLate(fc, now) ==
    {r \in fc : ~(r.fetched_at < Cutoff(now, PriceRetentionDays))}

\* DELETE FROM forecast WHERE fetched_at < cutoff_7d.
DeleteOldForecasts(fc, now) ==
    {r \in fc : ~(r.fetched_at < Cutoff(now, ForecastRetentionDays))}

\* run, lines 62-68: the cleanup arm fires and cleanup_old_records runs; n is the
\* number of its DELETE statements that succeed before one fails (`?`), 3 is Ok.
\* The connection mutex is held from the first DELETE to the last.
Cleanup(Stmts, maxCleanups) ==
    /\ Len(cleanups) < maxCleanups
    /\ \E n \in Stmts :
          /\ price_history' = IF n >= 1
                               THEN DeleteOldPrices(price_history,
                                                    Cutoff(clock, PriceRetentionDays))
                               ELSE price_history
          /\ alert_log' = IF n >= 2
                           THEN DeleteOldAlerts(alert_log, Cutoff(clock, PriceRetentionDays))
                           ELSE alert_log
          /\ forecast' = IF n >= 3 THEN DeleteOldForecasts(forecast, clock) ELSE forecast
          /\ cleanups' = Append(cleanups, n = 3)
    /\ UNCHANGED <<users, clock, rpc, batch, stage, queue, fc_fetches, failures, rounds, last,
                   secs, loop, summary, commandVars, dataVars>>

(* ------------------- Scheduler: the daily summary tick ----------------- *)

\* now_aest.hour()
Hour(lt) == (lt % DayMinutes) \div 60

\* A summary loop that does not look at summary_sent_today.
ShouldRunSummaryNoFlag(hour, sent_today) == hour = SummaryHour

\* run, line 53: hour == 21 && !summary_sent_today
ShouldRunSummary(hour, sent_today) == hour = SummaryHour /\ ~sent_today

\* run, lines 50-61: one tick of summary_check, d minutes after the previous one
\* (60 s, or later when the body of the previous tick took long).
SummaryTick(Gaps, maxClock) ==
    /\ \E d \in Gaps :
          /\ clock + d <= maxClock
          /\ clock' = clock + d
          /\ LET hour == Hour(LocalTime(clock'))
                 run == ShouldRunSummary(hour, summary.sent_today)
                 sent == IF run THEN TRUE ELSE summary.sent_today
             IN  summary' = [sent_today |-> IF hour = ResetHour THEN FALSE ELSE sent,
                             starts |-> IF run THEN Append(summary.starts, clock')
                                        ELSE summary.starts,
                             seen |-> IF hour = SummaryHour
                                      THEN summary.seen \cup {DatePrefix(LocalTime(clock'))}
                                      ELSE summary.seen,
                             run |-> summary.run]
    /\ UNCHANGED <<users, price_history, forecast, alert_log, rpc, batch, stage, queue,
                   fc_fetches, failures, rounds, last, secs, loop, cleanups, commandVars, dataVars>>

\* handle_daily_summary between two of its awaits: region is the index of the
\* region whose users were read last (0 before the first), todo the users of it
\* still to be sent to, sent the sends of this run, finished the runs that ended.
NoSummaryRun == [region |-> 0, todo |-> << >>, sent |-> << >>, finished |-> 0]

\* handle_daily_summary has been called by a tick and has not returned.
SummaryRunning == Len(summary.starts) > summary.run.finished

\* A summary send that handles Forbidden as send_alerts does.
AfterSummarySendDeactivating(us, chat_id, outcome) ==
    IF outcome = "forbidden" THEN SetActive(us, chat_id, FALSE) ELSE us

\* handle_daily_summary, line 314: `let _ = bot.send_message(..)`, the users
\* table after a send that ended with outcome.
AfterSummarySend(us, chat_id, outcome) == us

\* handle_daily_summary, lines 290-301 and 318: the next region's statistics and
\* users are read (an Err of get_active_users_by_region skips the region), or,
\* after the last region, the handler returns.
SummaryRegion(Queries) ==
    /\ SummaryRunning
    /\ summary.run.todo = << >>
    /\ \E qok \in Queries :
          LET r == summary.run.region + 1
          IN  summary' = [summary EXCEPT !.run =
                  IF r > Len(REGIONS)
                  THEN [region |-> 0, todo |-> << >>, sent |-> summary.run.sent,
                        finished |-> summary.run.finished + 1]
                  ELSE [region |-> r,
                        todo |-> IF qok.rows THEN GetActiveUsersByRegion(users, REGIONS[r])
                                 ELSE << >>,
                        sent |-> IF r = 1 THEN << >> ELSE summary.run.sent,
                        finished |-> summary.run.finished]]
    /\ UNCHANGED <<users, price_history, forecast, alert_log, clock, rpc, batch, stage, queue,
                   fc_fetches, failures, rounds, last, secs, loop, cleanups, commandVars,
                   dataVars>>

\* handle_daily_summary, lines 303-316: the summary of the next user of the
\* region is rendered and sent; outcome is the MessageSink's answer.
SummarySend(Outcomes) ==
    /\ SummaryRunning
    /\ summary.run.todo # << >>
    /\ \E outcome \in Outcomes :
          LET c == Head(summary.run.todo)
          IN  /\ summary' = [summary EXCEPT
                     !.run.todo = Tail(summary.run.todo),
                     !.run.sent = Append(summary.run.sent,
                                         [region |-> REGIONS[summary.run.region],
                                          chat_id |-> c, result |-> outcome])]
              /\ users' = AfterSummarySend(users, c, outcome)
    /\ UNCHANGED <<price_history, forecast, alert_log, clock, rpc, batch, stage, queue,
                   fc_fetches, failures, rounds, last, secs, loop, cleanups, commandVars,
                   dataVars>>

(* ------------------------- handlers of the chat ------------------------ *)

\* callbacks::handle, "region:<r>": upsert_user.
SelectRegion(Chats, Regions) ==
    /\ rpc = "idle"
    /\ \E c \in Chats, r \in Regions : users' = UpsertUser(users, c, r, clock)
    /\ UNCHANGED <<price_history, forecast, alert_log, clock, rpc, batch, stage, queue,
                   fc_fetches, failures, rounds, last, schedulerVars, commandVars, dataVars>>

\* cmd_alert, lines 115-117 and 141-143: the tests of /alert high <v>, /alert low <v>.
InRange(v, lo, hi) == lo <= v /\ v <= hi

\* An /alert high that checks the range only.
HighReplyRangeOnly(v, user) ==
    IF ~InRange(v, HighAlertMin, HighAlertMax) THEN "range" ELSE "updated"

HighReply(v, user) ==
    IF ~InRange(v, HighAlertMin, HighAlertMax) THEN "range"
    ELSE IF v <= user.low_alert THEN "order"
    ELSE "updated"

LowReply(v, user) ==
    IF ~InRange(v, LowAlertMin, LowAlertMax) THEN "range"
    ELSE IF v >= user.high_alert THEN "order"
    ELSE "updated"

\* The arguments of /alert after split_whitespace: high <val>, low <val>, off, on,
\* anything else; num is val.parse::<f64>(), None when it fails.
AlertArgs(Values) ==
    [sub : {"high", "low"}, num : {Some(v) : v \in Values} \cup {None}]
        \cup [sub : {"off", "on", "show"}, num : {None}]

\* cmd_alert, lines 103-109: get_user; without a row the handler replies and ends.
CmdAlertRead(Chats, Values, maxInFlight) ==
    /\ rpc = "idle"
    /\ Len(handlers) < maxInFlight
    /\ \E c \in Chats, arg \in AlertArgs(Values) :
          LET user == GetUser(users, c)
          IN  IF user.some
              THEN /\ handlers' = Append(handlers, [chat_id |-> c, arg |-> arg,
                                                     user |-> user.val])
                   /\ UNCHANGED done
              ELSE /\ done' = [reply |-> "start_first", chat_id |-> c, arg |-> arg]
                   /\ UNCHANGED handlers
    /\ UNCHANGED <<users, price_history, forecast, alert_log, clock, rpc, batch, stage, queue,
                   fc_fetches, failures, rounds, last, schedulerVars, dataVars>>

\* cmd_alert, lines 111-189: the match on the arguments, with the user read before.
CmdAlertApply ==
    /\ \E i \in DOMAIN handlers :
          LET h == handlers[i]
              c == h.chat_id
              sub == h.arg.sub
              reply == IF sub \in {"high", "low"} /\ ~h.arg.num.some THEN "invalid_number"
                       ELSE IF sub = "high" THEN HighReply(h.arg.num.val, h.user)
                       ELSE IF sub = "low" THEN LowReply(h.arg.num.val, h.user)
                       ELSE IF sub = "off" THEN "paused"
                       ELSE IF sub = "on" THEN "resumed"
                       ELSE "settings"
          IN  /\ users' = IF reply = "updated" /\ sub = "high"
                              THEN UpdateHighAlert(users, c, h.arg.num.val)
                          ELSE IF reply = "updated" /\ sub = "low"
                              THEN UpdateLowAlert(users, c, h.arg.num.val)
                          ELSE IF reply = "paused" THEN SetActive(users, c, FALSE)
                          ELSE IF reply = "resumed" THEN SetActive(users, c, TRUE)
                          ELSE users
              /\ handlers' = SubSeq(handlers, 1, i - 1) \o SubSeq(handlers, i + 1, Len(handlers))
              /\ done' = [reply |-> reply, chat_id |-> c, arg |-> h.arg]
    /\ UNCHANGED <<price_history, forecast, alert_log, clock, rpc, batch, stage, queue,
                   fc_fetches, failures, rounds, last, schedulerVars, dataVars>>

\* The data path at rest: no parser call, no fetcher call.
NoFetch == [pc |-> "idle", fn |-> "none", attempt |-> 0, trace |-> << >>, result |-> None,
            calls |-> 0]
NoAnalysis == [fn |-> "none", calls |-> 0, alerts |-> << >>]
\* run before its first statement, and run in its select loop with both tasks
\* spawned.
NotStarted == [pc |-> 1, price_loop |-> FALSE, forecast_loop |-> FALSE, price_fetches |-> 0,
               forecast_fetches |-> 0, loop_forecasts |-> 0, prices |-> None]
Started == [pc |-> 5, price_loop |-> TRUE, forecast_loop |-> TRUE, price_fetches |-> 1,
            forecast_fetches |-> 1, loop_forecasts |-> 0, prices |-> None]

InitData ==
    /\ parse = [fn |-> "none", csv |-> << >>, records |-> << >>]
    /\ fetch = NoFetch
    /\ analysis = NoAnalysis
    /\ boot = Started
    /\ sending = NoSending

\* Everything but the wall clock.
InitRest ==
    /\ users = [c \in ChatIds |-> NoUser]
    /\ price_history = {}
    /\ forecast = {}
    /\ alert_log = << >>
    /\ rpc = "idle"
    /\ batch = << >>
    /\ stage = 0
    /\ queue = << >>
    /\ fc_fetches = 0
    /\ failures = 0
    /\ rounds = 0
    /\ last = [result |-> "none"]
    /\ loop = [pc |-> "wait", attempt |-> 0, expected |-> 0, fetches |-> 0, slots |-> 0,
               result |-> "none", fetched |-> None]
    /\ summary = [sent_today |-> FALSE, starts |-> << >>, seen |-> {}, run |-> NoSummaryRun]
    /\ cleanups = << >>
    /\ handlers = << >>
    /\ done = [reply |-> "none"]

InitBot == InitRest /\ clock = 0 /\ secs = 0

Init == InitBot /\ InitData

Next ==
    \/ StartRound(SeqsUpTo(PriceRecords, MaxBatch), MaxRounds)
    \/ SendAlert(SendOutcomes, {0}, MaxSendFailures)
    \/ ForecastFetch(SeqsUpTo(ForecastRecords, MaxFcBatch), MaxFcFetches)
    \/ Tick(MaxClock)
    \/ SelectRegion(OneChat, UserRegions)

Spec == Init /\ [][Next]_vars

(* The hourly cap: many forecast points of the coming hour, sends that take time. *)

CapFcBatches ==
    {[i \in 1..k |-> [region |-> "NSW1", forecast_time |-> LocalTime(0) + 5 * i, price |-> 300]] :
        k \in {CapFcPoints - 1, CapFcPoints}}

CapBatches == {<<[region |-> "NSW1", price |-> 250, interval_time |-> LocalTime(0)]>>}

NextCap ==
    \/ StartRound(CapBatches, CapRounds)
    \/ SendAlert(SendOutcomes, {0, Quantum}, MaxSendFailures)
    \/ ForecastFetch(CapFcBatches, MaxFcFetches)
    \/ clock = 0 /\ SelectRegion(OneChat, {"NSW1"})

SpecCap == Init /\ [][NextCap]_vars

(* The price table: rounds whose records repeat keys with other prices. *)

NextStore ==
    \/ StartRound(SeqsUpTo(PriceRecords, MaxBatch), StoreRounds)
    \/ SendAlert({"ok"}, {0}, 0)
    \/ SelectRegion(OneChat, {"NSW1"})

SpecStore == Init /\ [][NextStore]_vars

(* One high-price episode: rounds of one record, an hour of wall clock. *)

NextEpisode ==
    \/ StartRound(SeqsUpTo(PriceRecords, 1), EpisodeRounds)
    \/ SendAlert({"ok"}, {0}, 0)
    \/ Tick(Quantum * EpisodeTicks)
    \/ clock = 0 /\ SelectRegion(OneChat, {"NSW1"})

SpecEpisode == Init /\ [][NextEpisode]_vars

(* The price loop: slots, stale answers and retries. *)

NextLoop ==
    \/ LoopWait(MaxSlots)
    \/ LoopFetch(LoopPrices)
    \/ LoopSleep
    \/ SendAlert({"ok"}, {0}, 0)
    \/ clock = 0 /\ SelectRegion(OneChat, {"NSW1"})

SpecLoop == Init /\ [][NextLoop]_vars

\* Every fetch and every send returns, and the runtime schedules the loop.
SpecLoopFair ==
    /\ SpecLoop
    /\ WF_vars(LoopWait(MaxSlots))
    /\ WF_vars(LoopFetch(LoopPrices))
    /\ WF_vars(LoopSleep)
    /\ WF_vars(SendAlert({"ok"}, {0}, 0))

(* The summary loop over two days. *)

NextSummary ==
    \/ SummaryTick({1, SummaryStall}, SummaryMinutes)
    \/ clock = 0 /\ SelectRegion(OneChat, {"NSW1"})

SpecSummary == Init /\ [][NextSummary]_vars

(* The summary loop when a tick body may run for hours. *)

NextSummaryLong ==
    \/ SummaryTick({1, LongStall}, SummaryMinutes)
    \/ clock = 0 /\ SelectRegion(OneChat, {"NSW1"})

SpecSummaryLong == Init /\ [][NextSummaryLong]_vars

(* The chat commands that change a user row, handled one at a time. *)

CmdValues == {-1001, -1000, 0, 49, 50, 51, 150, 15000, 15001}

NextCmd ==
    \/ SelectRegion(OneChat, UserRegions)
    \/ CmdAlertRead(OneChat, CmdValues, 1)
    \/ CmdAlertApply

SpecCmd == Init /\ [][NextCmd]_vars

(* A price that equals the threshold: the price stays, the user moves the threshold. *)

BoundaryRecord == [region |-> "NSW1", price |-> 250, interval_time |-> LocalTime(0)]

NextBoundary ==
    \/ StartRound({<<BoundaryRecord>>}, BoundaryRounds)
    \/ SendAlert({"ok"}, {0}, 0)
    \/ Tick(Quantum * BoundaryTicks)
    \/ clock = 0 /\ SelectRegion(OneChat, {"NSW1"})
    \/ CmdAlertRead(OneChat, {BoundaryRecord.price}, 1)
    \/ CmdAlertApply

SpecBoundary == Init /\ [][NextBoundary]_vars

(* The same batch again: the user and the forecast are stored before the first
   round and nothing but the rounds touches the Store afterwards. *)

ReplayBatch == <<[region |-> "NSW1", price |-> 250, interval_time |-> LocalTime(0)]>>

ReplayFcBatches ==
    {<<[region |-> "NSW1", forecast_time |-> LocalTime(0) + ForecastHorizonMinutes + 5,
        price |-> 300]>>}

NextReplay ==
    \/ rounds = 0 /\ SelectRegion(OneChat, {"NSW1"})
    \/ rounds = 0 /\ ForecastFetch(ReplayFcBatches, MaxFcFetches)
    \/ StartRound({ReplayBatch}, ReplayRounds)
    \/ SendAlert({"ok"}, {0}, 0)
    \/ Pause(ReplayPause, ReplayMinutes)

SpecReplay == Init /\ [][NextReplay]_vars

(* A capped user: a first round whose forecast alerts fill the user's hour, then
   a round with a record above the threshold, alone or with a second record of
   the region below it. *)

CappedBatches ==
    {<<[region |-> "NSW1", price |-> 250, interval_time |-> LocalTime(0)]>>,
     <<[region |-> "NSW1", price |-> 250, interval_time |-> LocalTime(0)],
       [region |-> "NSW1", price |-> -50, interval_time |-> LocalTime(0)]>>}

NextCapped ==
    \/ StartRound(CappedBatches, CappedRounds)
    \/ SendAlert({"ok"}, {0}, 0)
    \/ ForecastFetch(CapFcBatches, MaxFcFetches)
    \/ Pause(CappedPause, CappedPause)
    \/ clock = 0 /\ SelectRegion(OneChat, {"NSW1"})

SpecCapped == Init /\ [][NextCapped]_vars

(* The first price of a region: rounds of one record, at, between and above the
   default thresholds, with or without a forecast stored. *)

FirstBatches ==
    {<<[region |-> g, price |-> p, interval_time |-> LocalTime(0)]>> :
        g \in UserRegions, p \in {DefaultLowAlert, 100, DefaultHighAlert, 250}}

NextFirst ==
    \/ StartRound(FirstBatches, FirstRounds)
    \/ SendAlert({"ok"}, {0}, 0)
    \/ ForecastFetch(SeqsUpTo(ForecastRecords, 1), MaxFcFetches)
    \/ SelectRegion(OneChat, UserRegions)

SpecFirst == Init /\ [][NextFirst]_vars

(* The retention periods: rows stored days and months apart, and cleanups. *)

CleanupBatches ==
    {<<[region |-> "NSW1", price |-> 250, interval_time |-> t]>> : t \in IntervalTimes}

NextCleanup ==
    \/ StartRound(CleanupBatches, CleanupRounds)
    \/ SendAlert({"ok"}, {0}, 0)
    \/ ForecastFetch({<<[region |-> "NSW1", forecast_time |-> LocalTime(0) + 30,
                         price |-> 300]>>}, CleanupFetches)
    \/ Pause(ShortGapDays * DayMinutes, ShortHorizonDays * DayMinutes)
    \/ Pause(LongGapDays * DayMinutes, HorizonDays * DayMinutes)
    \/ Cleanup({2, 3}, MaxCleanups)
    \/ clock = 0 /\ SelectRegion(OneChat, {"NSW1"})

SpecCleanup == Init /\ [][NextCleanup]_vars

(* Forecasts published again: fetches half an hour apart whose lists hold up to
   two records, of two forecast times, two prices and two regions. *)

PublishRecords ==
    [region : {"NSW1"}, forecast_time : FcTimes, price : {100, 300}]
        \cup {[region |-> "VIC1", forecast_time |-> LocalTime(0) + 30, price |-> 300]}

WindowTimes == {LocalTime(0), LocalTime(0) + 30, LocalTime(0) + 60}

NextPublish ==
    \/ ForecastFetch(SeqsUpTo(PublishRecords, 2), PublishFetches)
    \/ Tick(Quantum * PublishTicks)
    \/ StartRound(CapBatches, CapRounds)
    \/ SendAlert({"ok"}, {0}, 0)
    \/ SelectRegion(OneChat, {"NSW1"})

SpecPublish == Init /\ [][NextPublish]_vars

(* Users who select a region again: the /alert commands of chat 1 are handled in
   the first minute, regions are selected by two chats at any time. *)

TwoChats == {1, 2}

NextUsers ==
    \/ SelectRegion(TwoChats, UserRegions)
    \/ clock = 0 /\ CmdAlertRead(OneChat, {200}, 1)
    \/ clock = 0 /\ CmdAlertApply
    \/ Tick(Quantum * UserTicks)

SpecUsers == Init /\ [][NextUsers]_vars

(* The parsers on every file of at most MaxLines lines of one kind. *)

InitParse ==
    /\ InitBot
    /\ \E csv \in Texts(DispatchLines, MaxLines) \cup Texts(PredispatchLines, MaxLines) :
          parse = [fn |-> "none", csv |-> csv, records |-> << >>]
    /\ fetch = NoFetch
    /\ analysis = NoAnalysis
    /\ boot = Started
    /\ sending = NoSending

NextParse ==
    \/ CallParseDispatch
    \/ CallParsePredispatch

SpecParse == InitParse /\ [][NextParse]_vars

(* The fetcher: calls of both functions, each download failing or delivering
   one of two files. *)

FetchFns == {"fetch_dispatch", "fetch_predispatch"}

FetchCsvs ==
    { Text(<<Row(<<W("I"), W("DISPATCH"), W("PRICE"), W("SETTLEMENTDATE"), W("REGIONID"),
                   W("RRP")>>),
             Row(<<W("D"), W("DISPATCH"), W("PRICE"), IntervalText, W("NSW1"), W("100")>>)>>),
      Text(<<Row(<<W("I"), W("PREDISPATCH"), W("REGION_PRICES"), W("REGIONID"), W("RRP"),
                   W("DATETIME")>>),
             Row(<<W("D"), W("PREDISPATCH"), W("REGION_PRICES"), W("NSW1"), W("300"),
                   IntervalText>>)>>) }

NextFetch ==
    \/ FetchCall(FetchFns, MaxFetchCalls)
    \/ FetchLatestZip(FetchCsvs)
    \/ FetchSleep
    \/ FetchReturn

SpecFetch == Init /\ [][NextFetch]_vars

\* Every download returns and every sleep ends. A download is enabled whatever the
\* file, so the condition is written on the download that fails or delivers the
\* empty file.
DownloadReturns == FetchLatestZip({<< >>})

SpecFetchFair == SpecFetch /\ WF_vars(DownloadReturns) /\ WF_vars(FetchSleep)

(* The analyzer called on its own, on any Store a short run leaves behind. *)

AnalysisBatches == SeqsUpTo(PriceRecords, 1) \cup {<< >>}

NextAnalysis ==
    \/ clock = 0 /\ SelectRegion(OneChat, {"NSW1"})
    \/ StartRound(SeqsUpTo(PriceRecords, 1), AnalysisRounds)
    \/ SendAlert({"ok"}, {0}, 0)
    \/ ForecastFetch(SeqsUpTo(ForecastRecords, 1), 1)
    \/ Tick(Quantum * AnalysisTicks)
    \/ CallAnalyze(AnalysisBatches, MaxAnalyses)
    \/ CallAnalyzeForecasts({"NSW1", "VIC1"}, {0}, MaxAnalyses)

SpecAnalysis == Init /\ [][NextAnalysis]_vars

(* The slots of the price loop: the loop starts at any minute and second of the
   hour; its fetches fail or bring nothing (stale answers are slept on), and it
   waits for the next slot. *)

InitSlots ==
    /\ InitRest
    /\ clock \in 0..59
    /\ secs \in 0..59
    /\ InitData

NextSlots ==
    \/ LoopWait(SlotWaits)
    \/ LoopFetch({})
    \/ LoopSleep

SpecSlots == InitSlots /\ [][NextSlots]_vars

(* The forecast alerts: forecasts of the start and of 30, 60 and 90 minutes
   later, priced above or at the default threshold, published again with
   another price; rounds of one record between the thresholds. *)

FcPoint(region, minutes, price) ==
    [region |-> region, forecast_time |-> LocalTime(0) + minutes, price |-> price]

ForecastAlertBatches ==
    { <<FcPoint("NSW1", 30, 300), FcPoint("NSW1", 60, 300), FcPoint("NSW1", 90, 300)>>,
      <<FcPoint("NSW1", 30, 150)>>,
      <<FcPoint("NSW1", 90, 150)>>,
      <<FcPoint("NSW1", 0, 300), FcPoint("VIC1", 30, 300)>> }

ForecastAlertRounds ==
    {<<[region |-> "NSW1", price |-> 100, interval_time |-> LocalTime(clock)]>>}

NextForecastAlerts ==
    \/ clock = 0 /\ SelectRegion(OneChat, {"NSW1", "VIC1"})
    \/ ForecastFetch(ForecastAlertBatches, FcAlertFetches)
    \/ Tick(Quantum * FcAlertTicks)
    \/ StartRound(ForecastAlertRounds, FcAlertRounds)
    \/ SendAlert({"ok"}, {0}, 0)

SpecForecastAlerts == Init /\ [][NextForecastAlerts]_vars

\* Runs that look at the order of the alerts: two users of two regions, a
\* round of high prices and, later, rounds of two records with one price below
\* every threshold.
OrderRecord(region, price) ==
    [region |-> region, price |-> price, interval_time |-> LocalTime(clock)]

OrderBatches ==
    {<<OrderRecord("NSW1", 400), OrderRecord("VIC1", 400)>>,
     <<OrderRecord("VIC1", 400), OrderRecord("NSW1", 0 - 50)>>,
     <<OrderRecord("NSW1", 0 - 50), OrderRecord("VIC1", 100)>>}

NextOrder ==
    \/ clock = 0 /\ SelectRegion(TwoChats, {"NSW1", "VIC1"})
    \/ Tick(Quantum * OrderTicks)
    \/ StartRound(OrderBatches, OrderRounds)
    \/ SendAlert({"ok"}, {0}, 0)

SpecOrder == Init /\ [][NextOrder]_vars

\* Runs with paused users: two users of two regions, /alert off and /alert on,
\* sends the MessageSink refuses with Forbidden, price rounds and forecasts.
TargetFcBatches == {<<FcPoint("NSW1", 30, 300), FcPoint("VIC1", 30, 300)>>}

NextTargets ==
    \/ rounds = 0 /\ SelectRegion(TwoChats, {"NSW1", "VIC1"})
    \/ done.reply = "none" /\ CmdAlertRead(TwoChats, {}, 1)
    \/ CmdAlertApply
    \/ ForecastFetch(TargetFcBatches, TargetFetches)
    \/ StartRound(OrderBatches, TargetRounds)
    \/ SendAlert({"ok", "forbidden"}, {0}, 1)

SpecTargets == Init /\ [][NextTargets]_vars

\* Runs in which queries of the Store fail: in a call of process_prices or
\* send_alerts all queries succeed, all fail, or those of one kind fail.
StorageQueries ==
    {AllOk, NoneOk} \cup {[AllOk EXCEPT ![f] = FALSE] : f \in DOMAIN AllOk}

StorageBatches == {<<OrderRecord("NSW1", 400)>>, <<OrderRecord("NSW1", 100)>>}

StorageFcBatches == {<<FcPoint("NSW1", 45, 300)>>}

NextStorage ==
    \/ clock = 0 /\ SelectRegion(OneChat, {"NSW1"})
    \/ clock = 0 /\ ForecastFetch(StorageFcBatches, 1)
    \/ Tick(Quantum * StorageTicks)
    \/ StartRoundWith(StorageQueries, StorageBatches, StorageRounds)
    \/ SendAlertWith(StorageQueries, {"ok"}, {0}, 0)

SpecStorage == Init /\ [][NextStorage]_vars

\* Runs of the daily summary: the bot is a minute before the summary hour; users
\* choose and change regions, also while the summary is being sent; a price round
\* writes alert_log rows; the MessageSink accepts or refuses the summaries.
RunStart == SummaryHour * 60 - UtcOffsetMinutes - 1

InitSummaryRun == InitRest /\ clock = RunStart /\ secs = 0 /\ InitData

NextSummaryRun ==
    \/ clock = RunStart /\ rounds = 0 /\ SelectRegion(TwoChats, {"NSW1", "VIC1"})
    \/ SummaryRunning /\ SelectRegion(OneChat, {"VIC1"})
    \/ ~SummaryRunning /\ SummaryTick({1}, RunStart + RunMinutes)
    \/ SummaryRegion({AllOk, NoneOk})
    \/ SummarySend(SendOutcomes)
    \/ StartRound(StorageBatches, RunRounds)
    \/ SendAlert({"ok"}, {0}, 0)

SpecSummaryRun == InitSummaryRun /\ [][NextSummaryRun]_vars

\* Two /alert commands of one user in flight: each handler reads the row, and
\* later tests its value against what it read and writes its column.
RaceValues == {50}

NextRace ==
    \/ SelectRegion(OneChat, {"NSW1"})
    \/ CmdAlertRead(OneChat, RaceValues, RaceHandlers)
    \/ CmdAlertApply

SpecRace == Init /\ [][NextRace]_vars

(* The second rate-limit check: rounds of one record, between or above the
   default thresholds, with ten or eleven forecast points of the coming hour
   above the threshold; the second round comes when the rows of the first are
   nearly an hour old, and one of its sends may take a minute. *)

LayerBatches ==
    {<<[region |-> "NSW1", price |-> p, interval_time |-> LocalTime(clock)]>> : p \in {100, 250}}

LayerFcBatches ==
    {[i \in 1..k |-> [region |-> "NSW1", forecast_time |-> LocalTime(clock) + 5 * i,
                      price |-> 300]] : k \in {LayerPoints - 1, LayerPoints}}

NextLayer ==
    \/ clock = 0 /\ SelectRegion(OneChat, {"NSW1"})
    \/ StartRound(LayerBatches, LayerRounds)
    \/ SendAlert({"ok", "error"}, {0}, 1)
    \/ /\ clock >= LayerPause /\ clock < LayerPause + LayerDelay
       /\ SendAlert({"ok"}, {LayerDelay}, 0)
    \/ ForecastFetch(LayerFcBatches, 1)
    \/ clock = 0 /\ Pause(LayerPause, LayerPause)

SpecLayer == Init /\ [][NextLayer]_vars

(* A high-price episode around local midnight: rounds of one record of the
   interval that ends now, priced above or below the default threshold, each
   round of a later interval than the rows stored. *)

MidnightBatches ==
    {<<[region |-> "NSW1", price |-> p, interval_time |-> LocalTime(clock)]>> : p \in {120, 250}}

NextMidnight ==
    \/ clock = 0 /\ SelectRegion(OneChat, {"NSW1"})
    \/ /\ \A r \in price_history : r.interval_time < LocalTime(clock)
       /\ StartRound(MidnightBatches, MidnightRounds)
    \/ SendAlert({"ok"}, {0}, 0)
    \/ clock = 0 /\ Pause(EveningMinutes, MidnightHorizon)
    \/ clock >= EveningMinutes /\ Pause(MidnightPause, MidnightHorizon)

SpecMidnight == Init /\ [][NextMidnight]_vars

(* The scheduler from the first statement of run; in the slots of the price
   loop fetch_dispatch answers an empty list or an error. *)

InitStartup ==
    /\ InitBot
    /\ parse = [fn |-> "none", csv |-> << >>, records |-> << >>]
    /\ fetch = NoFetch
    /\ analysis = NoAnalysis
    /\ boot = NotStarted
    /\ sending = NoSending

\* What fetch_dispatch may answer at startup: nothing, or one record priced 250 of
\* the current interval or of the one before.
StartupAnswers ==
    {<< >>} \cup {<<[region |-> "NSW1", price |-> 250, interval_time |-> t]>> :
                     t \in {ExpectedSettlementTime(clock) - 5, ExpectedSettlementTime(clock)}}

\* What fetch_predispatch answers when it succeeds: one forecast an hour ahead.
StartupForecasts ==
    {<<[region |-> "NSW1", forecast_time |-> LocalTime(clock) + 60, price |-> 300]>>}

NextStartup ==
    \/ clock = 0 /\ SelectRegion(OneChat, {"NSW1"})
    \/ RunPriceFetchUnchecked(StartupAnswers)
    \/ SendAlert({"ok"}, {0}, 0)
    \/ RunForecastFetch(StartupForecasts)
    \/ RunSpawn
    \/ LoopWait(StartupSlots)
    \/ LoopFetch({})
    \/ LoopSleep
    \/ ForecastLoopFetch(StartupForecasts, StartupLoopForecasts)

SpecStartup == InitStartup /\ [][NextStartup]_vars

(* The slots of the forecast loop, started at any minute and second of the hour. *)

NextForecastSlots ==
    \/ ForecastLoopFetch(StartupForecasts, ForecastSlotWaits)

SpecForecastSlots == InitSlots /\ [][NextForecastSlots]_vars

(* ----------------------------- properties ------------------------------ *)

\* The rows of chat c whose sent_at lies in the 60 minutes ending at t.
RowsInHour(c, t) ==
    {i \in DOMAIN alert_log : /\ alert_log[i].chat_id = c
                              /\ alert_log[i].sent_at > t - HourMinutes
                              /\ alert_log[i].sent_at <= t}

\* C1: for every chat and every instant t, the alert_log holds at most 10 rows of
\* the chat whose sent_at lies in the 60 minutes ending at t.  The instants are
\* taken at the rows: the window that ends at t holds no row that the window
\* ending at the latest row at or before t does not hold.
C1_HourlyCap ==
    \A i \in DOMAIN alert_log :
        Cardinality(RowsInHour(alert_log[i].chat_id, alert_log[i].sent_at)) <= MaxAlertsPerHour

\* C1 witness: the tenth row of the hour is logged and send_alerts has dropped a
\* further alert of that chat.
C1_Witness ==
    /\ last.result = "dropped"
    /\ Cardinality(RowsInHour(last.alert.chat_id, clock)) = MaxAlertsPerHour

\* Two rows of the same chat and type, of one of Types, less than `minutes` apart.
TwoRowsWithin(Types, minutes) ==
    \E i, j \in DOMAIN alert_log :
        /\ i < j
        /\ alert_log[i].chat_id = alert_log[j].chat_id
        /\ alert_log[i].alert_type = alert_log[j].alert_type
        /\ alert_log[i].alert_type \in Types
        /\ Abs(alert_log[j].sent_at - alert_log[i].sent_at) < minutes

\* C2: the alert_log never holds two rows of the same chat and the same type among
\* high_price, low_price and spike whose sent_at are less than 30 minutes apart.
C2_PriceDedup == ~TwoRowsWithin({"high_price", "low_price", "spike"}, PriceDedupMinutes)

\* C3: the alert_log never holds two forecast rows of the same chat whose sent_at
\* are less than 60 minutes apart.
C3_ForecastDedup == ~TwoRowsWithin({"forecast"}, LongDedupMinutes)

\* C4: the alert_log never holds two all_clear rows of the same chat whose sent_at
\* are less than 60 minutes apart.
C4_AllClearDedup == ~TwoRowsWithin({"all_clear"}, LongDedupMinutes)

\* C5: between two all_clear rows of a chat there is a high_price row of that chat
\* (an all_clear is logged once per high-price episode).
C5_AllClearOncePerEpisode ==
    \A i, j \in DOMAIN alert_log :
        (/\ i < j
         /\ alert_log[i].chat_id = alert_log[j].chat_id
         /\ alert_log[i].alert_type = "all_clear"
         /\ alert_log[j].alert_type = "all_clear")
        => \E k \in (i + 1)..(j - 1) : /\ alert_log[k].chat_id = alert_log[i].chat_id
                                       /\ alert_log[k].alert_type = "high_price"

\* C7: price_history holds at most one row per (region, interval_time); a step
\* never changes or removes a stored row, and inserting the batch of a round a
\* second time changes nothing.
C7_PriceUnique ==
    [][/\ \A r \in price_history : r \in price_history'
       /\ \A r1, r2 \in price_history' : PriceKey(r1) = PriceKey(r2) => r1 = r2
       /\ batch' # << >> =>
              InsertPrices(price_history', batch', clock', TRUE) = price_history']_vars

\* C7 witness: a round was handed a record whose key is stored with another price.
C7_Witness ==
    \E i \in DOMAIN batch, r \in price_history :
        /\ PriceKey(r) = PriceKey(batch[i])
        /\ r.price_mwh # batch[i].price

\* The row of a user is within the ranges and ordered.
RowOk(user) ==
    /\ user.low_alert < user.high_alert
    /\ HighAlertMin <= user.high_alert /\ user.high_alert <= HighAlertMax
    /\ LowAlertMin <= user.low_alert /\ user.low_alert <= LowAlertMax

\* The command finished by this step is an /alert high or low whose value is out
\* of range or would break low_alert < high_alert in the row before the step.
RefusedValue ==
    /\ done' # done \/ handlers' # handlers
    /\ Len(handlers') < Len(handlers)
    /\ done'.arg.num.some
    /\ LET v == done'.arg.num.val
           row == users[done'.chat_id]
       IN  \/ done'.arg.sub = "high" /\ (v < HighAlertMin \/ v > HighAlertMax \/ v <= row.low_alert)
           \/ done'.arg.sub = "low" /\ (v < LowAlertMin \/ v > LowAlertMax \/ v >= row.high_alert)

\* C6: every user row satisfies low_alert < high_alert, 50 <= high_alert <= 15000 and
\* -1000 <= low_alert <= 50 after every step, and a step that finishes an /alert
\* command whose value is out of range or would break the inequality leaves the
\* users table unchanged.
C6_ThresholdInvariant ==
    [][/\ \A c \in ChatIds : users'[c].present => RowOk(users'[c])
       /\ RefusedValue => users' = users]_vars

\* C6 witness: an /alert high whose value is in range but not above the low alert
\* of the row has been refused.
C6_Witness ==
    /\ done.reply = "order"
    /\ done.arg.sub = "high"
    /\ users[done.chat_id].low_alert = LowAlertMax
    /\ done.arg.num.val = users[done.chat_id].low_alert

Seconds == clock * 60 + secs

\* The step is a checked fetch that fetch_dispatch answered with records none of
\* which is of the expected interval.
StaleAnswer ==
    /\ loop'.fetches = loop.fetches + 1
    /\ loop'.fetched.some
    /\ \A i \in DOMAIN loop'.fetched.val :
          loop'.fetched.val[i].interval_time # loop.expected

\* C8: a slot has at most 5 checked fetches; a fetch none of whose records is of
\* the expected interval inserts no price row, emits no alert and is followed by a
\* sleep of 15 seconds, after which the next attempt is made or, after the fifth
\* such fetch, the slot is abandoned.
C8_StaleHandling ==
    [][/\ loop'.fetches <= MaxAttempts
       /\ StaleAnswer =>
              /\ price_history' = price_history
              /\ alert_log' = alert_log
              /\ queue' = << >> /\ rpc' = "idle"
              /\ loop'.pc = "sleep"
       /\ (loop.pc = "sleep" /\ loop' # loop) =>
              /\ Seconds' = Seconds + StaleSleepSeconds
              /\ price_history' = price_history
              /\ loop'.fetches = loop.fetches
              /\ loop'.pc = IF loop.fetches = MaxAttempts THEN "wait" ELSE "fetch"]_vars

\* C8 witness: a slot is abandoned after five stale answers that held a price
\* above the high alert of a user of the region.
C8_Witness ==
    /\ loop.pc = "wait"
    /\ loop.fetches = MaxAttempts
    /\ loop.result = "Stale"
    /\ loop.fetched.some
    /\ \E i \in DOMAIN loop.fetched.val, c \in ChatIds :
          /\ users[c].present
          /\ users[c].region = loop.fetched.val[i].region
          /\ loop.fetched.val[i].price > users[c].high_alert
    /\ price_history = {}

\* The loop is at its wait for the next slot, outside process_prices.
AtWait == loop.pc = "wait" /\ rpc = "idle"

\* C9: the price loop is at its Wait again and again, whatever the outcomes of the
\* slots, and attempts every slot the bound allows.
C9_LoopNeverTerminates == ([]<>AtWait) /\ <>(loop.slots = MaxSlots)

\* C9 witness: the loop is back at Wait in its last slot, which a failed fetch
\* ended after a stale answer.
C9_Witness ==
    /\ AtWait
    /\ loop.slots = MaxSlots
    /\ loop.result = "Error"
    /\ loop.fetches > 1

\* C10: every start of the daily summary task is at local hour 21, and no two
\* starts are on the same local calendar day.
C10_SummaryOncePerDay ==
    /\ \A i \in DOMAIN summary.starts : Hour(LocalTime(summary.starts[i])) = SummaryHour
    /\ \A i, j \in DOMAIN summary.starts :
          i < j => DatePrefix(LocalTime(summary.starts[i])) # DatePrefix(LocalTime(summary.starts[j]))

\* C10 witness: the task has started on two days, and a later tick of hour 21 of
\* the second day found the flag set.
C10_Witness ==
    /\ Len(summary.starts) = 2
    /\ summary.sent_today
    /\ Hour(LocalTime(clock)) = SummaryHour
    /\ clock > summary.starts[2]

\* C11: on every local day on which a tick of the summary loop saw hour 21, the
\* daily summary task was started that day.
C11_SummaryEveryDay ==
    \A d \in summary.seen :
        \E i \in DOMAIN summary.starts : DatePrefix(LocalTime(summary.starts[i])) = d

\* The step is one iteration of the loop of send_alerts, on the alert Head(queue).
SendStep == rpc = "send" /\ <<queue, stage, rpc>>' # <<queue, stage, rpc>>

\* The alert_log row of an alert delivered at minute t.
RowOf(alert, t) ==
    [chat_id |-> alert.chat_id, alert_type |-> alert.alert_type, price_mwh |-> alert.price,
     region |-> alert.region, sent_at |-> t]

RoundStep == rpc = "idle" /\ rounds' = rounds + 1 /\ batch' # << >>

\* The stored price of the latest interval before rec's interval in rec's region.
PriceBefore(ph, rec) ==
    LET rows == {r \in ph : r.region = rec.region /\ r.interval_time < rec.interval_time}
    IN  IF rows = {} THEN None
        ELSE Some((CHOOSE r \in rows : \A q \in rows : q.interval_time <= r.interval_time).price_mwh)

\* The (chat, region, price) of the spike alerts among a sequence of alerts.
SpikesIn(alerts) ==
    {<<alerts[i].chat_id, alerts[i].region, alerts[i].price>> :
        i \in {j \in DOMAIN alerts : alerts[j].alert_type = "spike"}}

\* C14: when a price round has analysed its batch, every record of the batch has
\* a price_history row, and the spike alerts emitted are exactly those of the
\* records and active users of the record's region for which the record's price
\* differs by more than 100 from the stored price of the interval before the
\* record's interval and can_alert(user, spike, 30) holds.
C14_SpikeReference ==
    [][RoundStep =>
          /\ \A i \in DOMAIN batch' :
                 \E r \in price_history' : PriceKey(r) = PriceKey(batch'[i])
          /\ SpikesIn(IF stage' = 0 THEN queue' ELSE << >>)
                = {<<c, batch'[i].region, batch'[i].price>> :
                      <<c, i>> \in {ci \in ChatIds \X DOMAIN batch' :
                          LET rec == batch'[ci[2]]
                              ref == PriceBefore(price_history', rec)
                          IN  /\ users[ci[1]].present /\ users[ci[1]].is_active
                              /\ users[ci[1]].region = rec.region
                              /\ ref.some /\ Abs(rec.price - ref.val) > SpikeDelta
                              /\ CanAlert(alert_log, clock, ci[1], "spike",
                                          PriceDedupMinutes, AllOk)}}]_vars

\* The alerts that analyze emitted in the step that starts a round.
Emitted == IF rpc' = "send" /\ stage' = 0 THEN queue' ELSE << >>

\* C15: when a round analyses a record whose price equals the high_alert of an
\* active user of the record's region, no high_price alert is emitted for the
\* user, and an all_clear alert with the record's price is emitted for the user if
\* the log holds a high_price row of the user of the last 180 minutes and no
\* all_clear row of the last 60 minutes.
C15_ThresholdBoundary ==
    [][(rpc = "idle" /\ rounds' = rounds + 1) =>
          \A c \in ChatIds :
              (/\ users[c].present /\ users[c].is_active
               /\ users[c].region = BoundaryRecord.region
               /\ users[c].high_alert = BoundaryRecord.price)
              => /\ ~\E i \in DOMAIN Emitted : /\ Emitted[i].chat_id = c
                                               /\ Emitted[i].alert_type = "high_price"
                 /\ (/\ \E k \in DOMAIN alert_log :
                           /\ alert_log[k].chat_id = c /\ alert_log[k].alert_type = "high_price"
                           /\ alert_log[k].sent_at > clock - WasHighMinutes
                     /\ ~\E k \in DOMAIN alert_log :
                           /\ alert_log[k].chat_id = c /\ alert_log[k].alert_type = "all_clear"
                           /\ alert_log[k].sent_at > clock - LongDedupMinutes)
                    => \E i \in DOMAIN Emitted : /\ Emitted[i].chat_id = c
                                                 /\ Emitted[i].alert_type = "all_clear"
                                                 /\ Emitted[i].price = BoundaryRecord.price]_vars

\* C15 witness: the user's threshold equals the price of the record, a high_price
\* row is in the log, and the round has emitted an all_clear and no high_price.
C15_Witness ==
    /\ rpc = "send" /\ stage = 0
    /\ users[1].is_active /\ users[1].high_alert = BoundaryRecord.price
    /\ \E k \in DOMAIN alert_log : alert_log[k].alert_type = "high_price"
    /\ \E i \in DOMAIN queue : queue[i].alert_type = "all_clear"
                                 /\ queue[i].price = users[1].high_alert
    /\ ~\E i \in DOMAIN queue : queue[i].alert_type = "high_price"

\* The step starts a round on ReplayBatch less than 30 minutes after the round
\* that stored the batch.
ReplayStep ==
    /\ rpc = "idle" /\ rounds' = rounds + 1
    /\ \E r \in price_history : /\ PriceKey(r) = PriceKey(ReplayBatch[1])
                                /\ r.fetched_at > clock - PriceDedupMinutes

\* All the alerts of the round that the step starts, when its price analysis
\* emits none the forecast alerts of the first region that has some.
RoundAlerts == IF rpc' = "send" THEN queue' ELSE << >>

\* C16 as stated: a round run again on the same batch within 30 minutes of a round
\* whose alerts were all delivered and logged emits no alert and adds no
\* price_history or alert_log row.
C16_ReplayEmitsNothing ==
    [][ReplayStep => /\ RoundAlerts = << >>
                     /\ price_history' = price_history
                     /\ alert_log' = alert_log]_vars

\* C16 amended: such a round adds no price_history row and emits no alert of a
\* user and type for which a row was logged since the first round started.
C16_ReplayRepeatsNothing ==
    [][ReplayStep =>
          /\ price_history' = price_history
          /\ \A i \in DOMAIN RoundAlerts :
                 ~\E k \in DOMAIN alert_log, r \in price_history :
                     /\ PriceKey(r) = PriceKey(ReplayBatch[1])
                     /\ alert_log[k].sent_at >= r.fetched_at
                     /\ alert_log[k].chat_id = RoundAlerts[i].chat_id
                     /\ alert_log[k].alert_type = RoundAlerts[i].alert_type]_vars

\* C16 witness: the second round on the batch, 10 minutes after the first, whose
\* high_price alert is in the log, has emitted a forecast alert only.
C16_Witness ==
    /\ rounds = 2 /\ rpc = "send" /\ stage > 0
    /\ \E r \in price_history : r.fetched_at = clock - ReplayPause
    /\ \E k \in DOMAIN alert_log : alert_log[k].alert_type = "high_price"
    /\ \A i \in DOMAIN queue : queue[i].alert_type = "forecast"

\* The user has 10 or more alert_log rows within the last hour.
Capped(c) ==
    Cardinality({k \in DOMAIN alert_log : /\ alert_log[k].chat_id = c
                                           /\ alert_log[k].sent_at > clock - HourMinutes})
        >= MaxAlertsPerHour

\* The step starts a round whose batch holds a record of c's region above c's
\* high_alert, and the round emits something.
BreachStep(c) ==
    /\ rpc = "idle" /\ rounds' = rounds + 1 /\ rpc' = "send"
    /\ users[c].present /\ users[c].is_active
    /\ \E i \in DOMAIN batch' : /\ batch'[i].region = users[c].region
                                 /\ batch'[i].price > users[c].high_alert

FirstPriceStep(c, r) ==
    /\ rpc = "idle" /\ rounds' = rounds + 1
    /\ ~\E q \in price_history : q.region = r.region
    /\ price_history' = price_history \cup {r}
    /\ ~\E k \in DOMAIN alert_log : alert_log[k].chat_id = c
    /\ users[c].present /\ users[c].is_active /\ users[c].region = r.region
    /\ users[c].low_alert <= r.price_mwh /\ r.price_mwh <= users[c].high_alert

\* C18 as stated: the round that stores the first price of a region, with a
\* price within the thresholds of a user without alert history, emits no alert
\* of any kind for the user and leaves exactly one price_history row of the region.
C18_FirstPriceNoAlert ==
    [][\A c \in ChatIds, r \in price_history' :
          FirstPriceStep(c, r) =>
              /\ \A i \in DOMAIN RoundAlerts : RoundAlerts[i].chat_id # c
              /\ {q \in price_history' : q.region = r.region} = {r}]_vars

\* C18 amended: such a round emits no spike, high_price, low_price or all_clear
\* alert for the user (a forecast alert is the only kind it can emit) and leaves
\* exactly one price_history row of the region.
C18_FirstPriceNoPriceAlert ==
    [][\A c \in ChatIds, r \in price_history' :
          FirstPriceStep(c, r) =>
              /\ \A i \in DOMAIN RoundAlerts :
                     RoundAlerts[i].chat_id = c => /\ RoundAlerts[i].alert_type = "forecast"
                                                   /\ stage' > 0
              /\ {q \in price_history' : q.region = r.region} = {r}]_vars

\* C18 witness: the first price of NSW1, equal to the user's high_alert, is stored,
\* the log is empty, and the round has gone past its price analysis without an
\* alert.
C18_Witness ==
    /\ rounds = 1 /\ alert_log = << >>
    /\ users[1].present /\ users[1].region = "NSW1"
    /\ \E r \in price_history : /\ price_history = {r} /\ r.region = "NSW1"
                                /\ r.price_mwh = users[1].high_alert
    /\ rpc = "send" /\ stage > 0

\* The step is a call of cleanup_old_records that returns Ok.
CleanupStep == Len(cleanups') = Len(cleanups) + 1 /\ cleanups'[Len(cleanups')]

\* C19: when cleanup_old_records has returned Ok, no price_history row has a
\* fetched_at more than 90 days back, no forecast row a fetched_at more than 7
\* days back and no alert_log row a sent_at more than 90 days back; the rows
\* younger than their cut-off are all still there, no row is new or changed, and
\* users is as it was.
C19_Retention ==
    [][CleanupStep =>
          /\ \A r \in price_history' : r.fetched_at >= clock - PriceRetentionDays * DayMinutes
          /\ \A r \in forecast' : r.fetched_at >= clock - ForecastRetentionDays * DayMinutes
          /\ \A i \in DOMAIN alert_log' :
                 alert_log'[i].sent_at >= clock - PriceRetentionDays * DayMinutes
          /\ price_history' \subseteq price_history
          /\ forecast' \subseteq forecast
          /\ \A r \in price_history :
                 r.fetched_at > clock - PriceRetentionDays * DayMinutes => r \in price_history'
          /\ \A r \in forecast :
                 r.fetched_at > clock - ForecastRetentionDays * DayMinutes => r \in forecast'
          /\ \E keep \in SUBSET DOMAIN alert_log :
                 /\ alert_log' = [i \in 1..Cardinality(keep) |->
                                     alert_log[CHOOSE k \in keep :
                                         Cardinality({j \in keep : j <= k}) = i]]
                 /\ \A k \in DOMAIN alert_log :
                        alert_log[k].sent_at > clock - PriceRetentionDays * DayMinutes
                            => k \in keep
          /\ users' = users]_vars

\* C19 witness: the latest cleanup returned Ok; the row of the alert that
\* was delivered is gone from the log, the forecast of the first fetch is gone
\* and that of the second is kept, and a price row is kept.
C19_Witness ==
    /\ cleanups # << >>
    /\ cleanups[Len(cleanups)]
    /\ \A r \in forecast : r.fetched_at >= clock - ForecastRetentionDays * DayMinutes
    /\ last.result = "ok" /\ alert_log = << >>
    /\ fc_fetches = 2 /\ Cardinality(forecast) = 1
    /\ \A r \in forecast : r.fetched_at > 0
    /\ price_history # {}

\* C20: for every region and window (after, before], get_forecasts returns one
\* entry for each forecast_time of the region's stored rows in the window and no
\* other, in increasing forecast_time order, each with the price of the row of
\* that region and forecast_time whose published_at is greatest.
C20_LatestPublicationWins ==
    \A g \in UserRegions, after \in WindowTimes, before \in WindowTimes :
        LET res == GetForecasts(forecast, g, after, before)
            rows == {r \in forecast : r.region = g}
        IN  /\ {res[i][1] : i \in DOMAIN res}
                  = {r.forecast_time : r \in {q \in rows : /\ after < q.forecast_time
                                                           /\ q.forecast_time <= before}}
            /\ \A i, j \in DOMAIN res : i < j => res[i][1] < res[j][1]
            /\ \A i \in DOMAIN res :
                   \E r \in rows : /\ r.forecast_time = res[i][1]
                                   /\ r.price_mwh = res[i][2]
                                   /\ \A q \in rows : q.forecast_time = r.forecast_time
                                                          => q.published_at <= r.published_at

\* C20 witness: a forecast_time of NSW1 is stored twice, published half an hour
\* apart with different prices, next to another forecast_time and a row of
\* VIC1, and get_forecasts answers two entries, the first with the later price.
C20_Witness ==
    \E r, q \in forecast :
        /\ r.region = "NSW1" /\ q.region = "NSW1"
        /\ r.forecast_time = LocalTime(0) + 30 /\ q.forecast_time = r.forecast_time
        /\ r.published_at < q.published_at /\ r.price_mwh # q.price_mwh
        /\ \E v \in forecast : v.region = "VIC1"
        /\ GetForecasts(forecast, "NSW1", LocalTime(0), LocalTime(0) + 60)
              = <<<<q.forecast_time, q.price_mwh>>, <<LocalTime(0) + 60, 300>>>>

\* The step is an upsert_user that changes the row of chat c: the region
\* callback is the only operation that changes users and neither finishes a
\* command nor handles an alert.
UpsertStep(c) ==
    /\ users'[c] # users[c]
    /\ UNCHANGED <<handlers, done, rpc, stage, queue>>

\* C21: upsert_user on an absent chat_id creates an active row with high_alert
\* 150, low_alert 0 and both timestamps now; on an existing chat_id it changes
\* region and updated_at only; no other row changes.
C21_UpsertFrame ==
    [][\A c \in ChatIds :
          UpsertStep(c) =>
              /\ users'[c].present /\ users'[c].region \in UserRegions
              /\ users'[c].updated_at = clock
              /\ IF users[c].present
                 THEN /\ users'[c].high_alert = users[c].high_alert
                      /\ users'[c].low_alert = users[c].low_alert
                      /\ users'[c].is_active = users[c].is_active
                      /\ users'[c].created_at = users[c].created_at
                 ELSE /\ users'[c].high_alert = 150 /\ users'[c].low_alert = 0
                      /\ users'[c].is_active
                      /\ users'[c].created_at = clock
              /\ \A d \in ChatIds \ {c} : users'[d] = users[d]]_vars

\* C21 witness: chat 1, paused and with high_alert 200 since the first minute,
\* has selected VIC1 later on and is still paused with high_alert 200.
C21_Witness ==
    /\ users[1].present /\ users[1].region = "VIC1"
    /\ ~users[1].is_active /\ users[1].high_alert = 200
    /\ users[1].created_at = 0 /\ users[1].updated_at = Quantum
    /\ users[2].present

\* The download attempts in a fetcher trace.
Downloads(trace) == {i \in 1..Len(trace) : trace[i].ev \in {"ok", "err"}}

FetchTraceOk ==
    LET tr == fetch.trace
        n == Len(tr)
        returned == fetch.calls > 0 /\ fetch.pc \in {"returned", "idle"}
    IN  /\ Cardinality(Downloads(tr)) <= 3
        /\ \A i \in 1..n :
              /\ tr[i].ev = "ok" =>
                    /\ i = n
                    /\ returned
                    /\ fetch.result = [ok |-> TRUE,
                                       records |-> IF fetch.fn = "fetch_dispatch"
                                                   THEN ParseDispatch(tr[i].csv)
                                                   ELSE ParsePredispatch(tr[i].csv)]
              /\ tr[i].ev = "sleep" =>
                    /\ i > 1 /\ tr[i - 1].ev = "err"
                    /\ tr[i].seconds = 30
                    /\ IF i < n THEN i + 1 \in Downloads(tr) ELSE fetch.pc = "attempt"
              /\ tr[i].ev = "err" /\ i < n => tr[i + 1].ev = "sleep"
        /\ returned =>
              /\ fetch.result # None
              /\ ~fetch.result.ok <=>
                    /\ Cardinality(Downloads(tr)) = 3
                    /\ \A i \in Downloads(tr) : tr[i].ev = "err"

\* C22: fetch_dispatch and fetch_predispatch download at most 3 times, return the
\* parsed records of the first download that succeeds and download no more, sleep
\* 30 s after a failed download only when another download follows, and return
\* an error exactly when three downloads failed; a call that has started returns.
C22_FetchRetry ==
    /\ []FetchTraceOk
    /\ (fetch.pc = "attempt") ~> (fetch.pc = "returned")

\* A call of fetch_predispatch has returned the records of its third download
\* after two failures and two sleeps.
C22_Witness ==
    /\ fetch.pc = "returned"
    /\ fetch.fn = "fetch_predispatch"
    /\ Len(fetch.trace) = 5
    /\ fetch.result.ok
    /\ Len(fetch.result.records) = 1
    /\ fetch.calls = 2

\* The parser call at hand: its rows, the lines of its file, their fields, and
\* the function applied to a file of the given lines.
ParserRows == IF parse.fn = "parse_dispatch" THEN DispatchRows ELSE PredispatchRows
ParserLines == Lines(parse.csv)
ParserFields == [i \in 1..Len(ParserLines) |-> SplitOn(ParserLines[i], Comma)]
ParserOn(lines) ==
    IF parse.fn = "parse_dispatch" THEN ParseDispatch(Text(lines))
    ELSE ParsePredispatch(Text(lines))

HeaderAt(F, i) == IsRow(F[i], "I", ParserRows)
DataAt(F, i) == IsRow(F[i], "D", ParserRows)

\* C23: a line adds a record to the result only if it is a D row of the parser's
\* table and an I row of that table stands before it in the file; a file
\* without such an I row gives the empty result.
C23_HeaderFirst ==
    parse.fn # "none" =>
        LET L == ParserLines
            F == ParserFields
            count == [k \in 0..Len(L) |-> Len(ParserOn(SubSeq(L, 1, k)))]
        IN  /\ parse.records = ParserOn(L)
            /\ \A k \in 1..Len(L) :
                  count[k] > count[k - 1] => DataAt(F, k) /\ \E j \in 1..(k - 1) : HeaderAt(F, j)
            /\ (\A j \in 1..Len(L) : ~HeaderAt(F, j)) => parse.records = << >>

\* parse_dispatch was given a D row, then an I row, then a D row: only the
\* second D row made a record.
C23_Witness ==
    /\ parse.fn = "parse_dispatch"
    /\ Len(ParserLines) = 3
    /\ DataAt(ParserFields, 1) /\ HeaderAt(ParserFields, 2) /\ DataAt(ParserFields, 3)
    /\ ParserLines[1] = ParserLines[3]
    /\ Len(parse.records) = 1

\* The I row that rules line i: the last one before it, 0 if there is none.
HeaderOf(F, i) ==
    IF \E j \in 1..(i - 1) : HeaderAt(F, j)
    THEN CHOOSE j \in 1..(i - 1) : HeaderAt(F, j) /\ \A k \in (j + 1)..(i - 1) : ~HeaderAt(F, k)
    ELSE 0

\* The place of the first of the named columns that the I row of line i has,
\* taken from that I row alone; 0-based, -1 if it has none of them.
PlaceOf(F, i, names) ==
    LET header == F[HeaderOf(F, i)]
        named == {k \in 1..Len(names) : \E c \in 1..Len(header) : Unquoted(header[c]) = names[k]}
        first == CHOOSE k \in named : \A m \in named : k <= m
        cols == {c \in 1..Len(header) : Unquoted(header[c]) = names[first]}
    IN  IF named = {} THEN -1 ELSE (CHOOSE c \in cols : \A d \in cols : d <= c) - 1

AcceptedAt(F, i) ==
    /\ DataAt(F, i)
    /\ HeaderOf(F, i) # 0
    /\ LET ri == PlaceOf(F, i, <<(<<"REGIONID">>)>>)
           pi == PlaceOf(F, i, <<(<<"RRP">>)>>)
           ti == PlaceOf(F, i, ParserRows.times)
           n == Len(F[i])
       IN  /\ ri >= 0 /\ pi >= 0 /\ ti >= 0
           /\ ri < n /\ pi < n /\ ti < n
           /\ LET price == ParseF64(Unquoted(F[i][pi + 1]))
              IN  price.finite /\ price.v >= -1000 /\ price.v <= 17500

RecordAt(F, i) ==
    [region |-> Unquoted(F[i][PlaceOf(F, i, <<(<<"REGIONID">>)>>) + 1]),
     price |-> ParseF64(Unquoted(F[i][PlaceOf(F, i, <<(<<"RRP">>)>>) + 1])).v,
     time |-> Unquoted(F[i][PlaceOf(F, i, ParserRows.times) + 1])]

RECURSIVE AcceptedFrom(_, _)
AcceptedFrom(F, i) ==
    IF i > Len(F) THEN << >>
    ELSE (IF AcceptedAt(F, i) THEN <<RecordAt(F, i)>> ELSE << >>) \o AcceptedFrom(F, i + 1)

Without(lines, i) == SubSeq(lines, 1, i - 1) \o SubSeq(lines, i + 1, Len(lines))

\* C24: the result is the sequence, in file order, of the records of the D rows
\* whose I row names the three columns, whose fields reach those columns, and
\* whose price is finite and within [-1000, 17500]; the file without one of its
\* rejected D rows gives the same result.
C24_InvalidRowsSkipped ==
    parse.fn # "none" =>
        LET L == ParserLines
            F == ParserFields
        IN  /\ parse.records = AcceptedFrom(F, 1)
            /\ \A i \in 1..Len(L) :
                  DataAt(F, i) /\ ~AcceptedAt(F, i) => ParserOn(Without(L, i)) = parse.records

\* parse_predispatch was given an I row, a D row with a price below -1000 and a
\* D row with the price 300: the result is the record of the last row alone.
C24_Witness ==
    /\ parse.fn = "parse_predispatch"
    /\ Len(ParserLines) = 3
    /\ HeaderAt(ParserFields, 1) /\ DataAt(ParserFields, 2) /\ DataAt(ParserFields, 3)
    /\ ~AcceptedAt(ParserFields, 2)
    /\ ParseF64(Unquoted(ParserFields[2][5])).v = -1001
    /\ Len(parse.records) = 1
    /\ parse.records[1].price = 300

\* A call of the analyzer on its own.
AnalysisStep == analysis' # analysis

\* C25: a call of analyze or analyze_forecasts leaves users, price_history,
\* forecast and alert_log as they were, whatever the prices and the tables; and
\* analyze on the empty list returns no alert.
C25_AnalysisReadOnly ==
    [][AnalysisStep =>
          /\ users' = users
          /\ price_history' = price_history
          /\ forecast' = forecast
          /\ alert_log' = alert_log
          /\ (analysis'.fn = "analyze" /\ analysis'.prices = << >>) => analysis'.alerts = << >>]_vars

\* analyze has returned alerts on a Store that holds a user, prices and alert
\* rows, and the tables are those of the round before.
C25_Witness ==
    /\ analysis.fn = "analyze"
    /\ analysis.alerts # << >>
    /\ analysis.prices # << >>
    /\ alert_log # << >>
    /\ price_history # {}
    /\ forecast # {}
    /\ users[1].present

\* The alert_log rows that make was_high true for the chat: its high_price rows
\* of the last 180 minutes.
RecentHighs(c) ==
    {i \in DOMAIN alert_log : /\ alert_log[i].chat_id = c
                              /\ alert_log[i].alert_type = "high_price"
                              /\ alert_log[i].sent_at > clock - 180}

\* C26: the peak of an emitted all_clear alert is a price, and it is at least the
\* price of every high_price alert of the user that the all_clear follows.
C26_AllClearPeak ==
    [][(rpc = "idle" /\ rounds' = rounds + 1) =>
          \A i \in DOMAIN Emitted :
              Emitted[i].alert_type = "all_clear" =>
                  /\ Emitted[i].text[4].some
                  /\ \A j \in RecentHighs(Emitted[i].chat_id) :
                        Emitted[i].text[4].val >= alert_log[j].price_mwh]_vars

\* C27: a step of the price loop or a fetch of the forecast loop happens only
\* when the startup price fetch and the startup forecast fetch have each been
\* made once; the startup forecast fetch starts after the startup price fetch
\* has returned, and neither is made again; the startup price fetch stores every
\* record it was given, whatever its interval.
C27_StartupOrder ==
    [][/\ (loop' # loop \/ boot'.loop_forecasts # boot.loop_forecasts)
             => boot.price_fetches = 1 /\ boot.forecast_fetches = 1
       /\ boot'.price_fetches # boot.price_fetches
             => boot.price_fetches = 0 /\ boot.forecast_fetches = 0
       /\ boot'.forecast_fetches # boot.forecast_fetches
             => boot.price_fetches = 1 /\ boot.forecast_fetches = 0 /\ rpc = "idle"
       /\ (boot'.price_fetches # boot.price_fetches /\ boot'.prices.some)
             => /\ rounds' = rounds + 1
                /\ \A i \in DOMAIN boot'.prices.val :
                      \E r \in price_history' :
                          /\ r.region = boot'.prices.val[i].region
                          /\ r.interval_time = boot'.prices.val[i].interval_time]_vars

\* The startup price fetch stored a record of the interval before the current
\* one, the startup forecast fetch stored a forecast, and the price loop has
\* since made a fetch in its first slot.
C27_Witness ==
    /\ boot.pc = 5
    /\ boot.prices.some
    /\ boot.prices.val # << >>
    /\ \A i \in DOMAIN boot.prices.val :
          boot.prices.val[i].interval_time < ExpectedSettlementTime(0)
    /\ forecast # {}
    /\ loop.fetches = 1
    /\ boot.loop_forecasts = 1

\* The alert_log rows of chat c within the hour, as the analyzer read them when it
\* returned the alerts of the running send_alerts.
SeenRows(c) ==
    {k \in 1..sending.rows : /\ alert_log[k].chat_id = c
                             /\ alert_log[k].sent_at > sending.at - HourMinutes}

\* The alerts of chat c that the running send_alerts was called with, in
\* emission order.
AlertsOf(c) == SelectSeq(sending.alerts, LAMBDA a : a.chat_id = c)

\* An alert_log row without its sent_at.
Unstamped(row) == [chat_id |-> row.chat_id, alert_type |-> row.alert_type,
                   price_mwh |-> row.price_mwh, region |-> row.region]

\* The rows of chat c that the send_alerts ending with this step has logged.
LoggedFor(c) ==
    LET rows == SelectSeq(SubSeq(alert_log', sending.rows + 1, Len(alert_log')),
                          LAMBDA row : row.chat_id = c)
    IN  [k \in DOMAIN rows |-> Unstamped(rows[k])]

\* The first m alerts of chat c, as rows.
FirstOf(c, m) == [k \in 1..m |-> Unstamped(RowOf(AlertsOf(c)[k], 0))]

\* The step is the last iteration of a send_alerts in which no send has failed,
\* called with more alerts of chat c than the hour of c had room for.
OverfullCallEnds(c) ==
    /\ SendStep /\ Tail(queue) = << >>
    /\ failures' = 0
    /\ Cardinality(SeenRows(c)) < MaxAlertsPerHour
    /\ Len(AlertsOf(c)) > MaxAlertsPerHour - Cardinality(SeenRows(c))

\* C28 as stated: when a user has n < 10 alert_log rows in the last hour and the
\* analyzer emits more than 10 - n alerts for the user, send_alerts (its sends
\* succeeding) sends and logs the first 10 - n of them in emission order and
\* drops the rest.
C28_SecondLayer ==
    [][\A c \in ChatIds :
          OverfullCallEnds(c) =>
              LoggedFor(c) = FirstOf(c, MaxAlertsPerHour - Cardinality(SeenRows(c)))]_vars

\* C28 amended: the same, when none of the n rows has left the hour by the time
\* send_alerts checks the last alert; and the last alert is dropped.
C28_SecondLayerWhileInHour ==
    [][\A c \in ChatIds :
          (/\ OverfullCallEnds(c)
           /\ \A k \in SeenRows(c) : alert_log[k].sent_at > clock - HourMinutes) =>
              /\ LoggedFor(c) = FirstOf(c, MaxAlertsPerHour - Cardinality(SeenRows(c)))
              /\ Head(queue).chat_id = c => last'.result = "dropped"]_vars

\* C28 witness: the second round came 59 minutes after the first, whose
\* high_price row was still within the hour; its high_price alert and the first
\* 8 of its 11 forecast alerts were sent and logged, the last was dropped.
C28_Witness ==
    /\ rounds = 2 /\ clock = LayerPause /\ rpc = "idle" /\ failures = 0
    /\ last.result = "dropped" /\ last.alert.alert_type = "forecast"
    /\ Len(alert_log) = MaxAlertsPerHour
    /\ alert_log[1].sent_at = 0 /\ alert_log[2].sent_at = LayerPause
    /\ Cardinality({k \in DOMAIN alert_log : alert_log[k].alert_type = "forecast"})
           = MaxAlertsPerHour - 2
    /\ Cardinality(forecast) = LayerPoints

\* The step is a call of fetch_dispatch by price_fetch_checked in the current slot.
SlotFetchStep == loop'.fetches = loop.fetches + 1 /\ loop'.slots = loop.slots

\* The step enters process_prices.
ProcessStep == rounds' = rounds + 1

\* C29: process_prices is entered only by a fetch of the slot whose answer holds a
\* record of the slot's expected interval, and on that answer; a fetch is made
\* only when the slot has had no Success and no Error before, so that a slot
\* enters process_prices at most once, and the slots so far at most once each.
C29_OncePerSlot ==
    [][/\ ProcessStep =>
              /\ SlotFetchStep
              /\ loop'.result = "Success"
              /\ loop'.fetched.some
              /\ \E i \in DOMAIN loop'.fetched.val :
                     loop'.fetched.val[i].interval_time = loop.expected
              /\ price_history' = InsertPrices(price_history, loop'.fetched.val, clock, TRUE)
       /\ SlotFetchStep => loop.result \notin {"Success", "Error"}
       /\ rounds' <= loop'.slots]_vars

\* C29 witness: in each of two slots a stale answer was followed by an answer with
\* a record of the expected interval, which was processed; the loop is at its
\* wait with two rounds made.
C29_Witness ==
    /\ AtWait
    /\ loop.slots = MaxSlots /\ rounds = MaxSlots
    /\ loop.result = "Success" /\ loop.fetches > 1
    /\ \E r \in price_history : r.interval_time = loop.expected

\* The second of the hour.
SecondOfHour == (LocalTime(clock) % 60) * 60 + secs

\* C30: at every minute m and second s of the hour, wait_until_next_price_slot
\* returns a wait w with 1 <= w <= 300 and (60 m + s + w) mod 300 = 90, and no
\* smaller positive wait ends 90 s after a 5-minute boundary; the loop that
\* sleeps w seconds is then at the first such instant after the call, so that
\* successive slot instants are 300 s apart.
C30_SlotAlignment ==
    LET w == WaitUntilNextPriceSlot(LocalTime(clock) % 60, secs)
    IN  /\ 1 <= w /\ w <= SlotSeconds
        /\ (SecondOfHour + w) % SlotSeconds = SlotOffsetSeconds
        /\ \A v \in 1..(w - 1) : (SecondOfHour + v) % SlotSeconds # SlotOffsetSeconds
        /\ SecondOfHour % SlotSeconds = SlotOffsetSeconds => w = SlotSeconds
        /\ loop.pc = "fetch" /\ loop.fetches = 0 =>
               Seconds % SlotSeconds = SlotOffsetSeconds

\* C30 witness: the loop was started in the last minutes of the hour and is at
\* its second slot, 6 min 30 s into the next hour, 300 s after its first.
C30_Witness ==
    /\ loop.pc = "fetch" /\ loop.fetches = 0
    /\ loop.slots = 2
    /\ clock = 66 /\ secs = 30

\* C31: at every minute m and second s of the hour, wait_until_next_forecast_slot
\* returns a wait w with 1 <= w <= 1800 and (60 m + s + w) mod 1800 = 90, and no
\* smaller positive wait ends 90 s after a 30-minute boundary; the forecast loop
\* that slept w seconds fetches at such an instant.
C31_ForecastSlotAlignment ==
    LET w == WaitUntilNextForecastSlot(LocalTime(clock) % 60, secs)
    IN  /\ 1 <= w /\ w <= ForecastSlotSeconds
        /\ (SecondOfHour + w) % ForecastSlotSeconds = SlotOffsetSeconds
        /\ \A v \in 1..(w - 1) : (SecondOfHour + v) % ForecastSlotSeconds # SlotOffsetSeconds
        /\ boot.loop_forecasts > 0 => Seconds % ForecastSlotSeconds = SlotOffsetSeconds

\* C31 witness: the forecast loop, started in the second half of the hour, has
\* fetched at 01:30 and at 31:30 of the next hour.
C31_Witness ==
    /\ boot.loop_forecasts = 2
    /\ clock = 91 /\ secs = 30
    /\ forecast # {}

\* The local wall clock in seconds.
LocalSeconds == LocalTime(clock) * 60 + secs

\* expected_settlement_time at the current instant is the local time with its
\* minute rounded down to a multiple of 5 (and no seconds).
ExpectedIsFloor ==
    LET e == ExpectedSettlementTime(clock)
    IN  /\ e % 5 = 0
        /\ e <= LocalTime(clock) /\ LocalTime(clock) < e + 5
        /\ Hour(e) = Hour(LocalTime(clock)) /\ DatePrefix(e) = DatePrefix(LocalTime(clock))

\* C32: expected_settlement_time is the local time with the minute rounded down
\* to a multiple of 5 and the second 0; the value the loop takes when it wakes
\* for a slot is 90 seconds before the wake time; and the loop keeps that value
\* through the fetches and sleeps of the slot.
C32_ExpectedSettlement ==
    /\ []ExpectedIsFloor
    /\ [][/\ (loop'.slots = loop.slots + 1) =>
                  /\ loop'.expected = ExpectedSettlementTime(clock')
                  /\ loop'.expected * 60 = LocalSeconds' - SlotOffsetSeconds
          /\ (loop'.slots = loop.slots) => (loop'.expected = loop.expected)]_vars

\* C32 witness: the fifth fetch of a slot, made 60 seconds after the wake time,
\* was checked against the settlement time taken at the wake time.
C32_Witness ==
    /\ loop.slots = 1 /\ loop.fetches = MaxAttempts
    /\ LocalSeconds = loop.expected * 60 + SlotOffsetSeconds + 4 * StaleSleepSeconds
    /\ loop.result = "Stale"

\* The last I row before line i of the subtype of line i; 0 if there is none.
SameHeaderOf(F, i) ==
    LET same == {j \in 1..(i - 1) : HeaderAt(F, j) /\ Trim(F[j][3]) = Trim(F[i][3])}
    IN  IF same = {} THEN 0 ELSE CHOOSE j \in same : \A k \in same : k <= j

\* C33: in parse_predispatch a D row of subtype PRICE or REGION_PRICES that
\* follows an I row of its own subtype adds to the result what its fields give
\* under the columns of the latest such I row, whatever rows of the other
\* subtype stand in between.
C33_ColumnMapPerSubtype ==
    parse.fn = "parse_predispatch" =>
        LET L == ParserLines
            F == ParserFields
            result == [k \in 0..Len(L) |-> ParserOn(SubSeq(L, 1, k))]
        IN  \A k \in 1..Len(L) :
                (DataAt(F, k) /\ SameHeaderOf(F, k) # 0) =>
                    result[k] = DataRow(HeaderColumns(NoColumns, F[SameHeaderOf(F, k)]), F[k],
                                        result[k - 1], PredispatchRows)

\* analyze_forecasts has just returned the alerts in queue: send_alerts has them
\* all before it, and the Store and the clock are those the analyzer read.
ForecastsJustEmitted ==
    /\ rpc = "send" /\ stage >= 1
    /\ queue = sending.alerts /\ Len(alert_log) = sending.rows /\ clock = sending.at

\* Row r is the latest publication of its region and forecast_time.
LatestPublication(r) ==
    \A q \in forecast :
        (q.region = r.region /\ q.forecast_time = r.forecast_time) => q.published_at <= r.published_at

\* C34: every alert that analyze_forecasts emits is a forecast alert of the
\* analysed region for a user of that region, carries time and price of a stored
\* forecast of the region with forecast_time in (now, now + 60 min] that is the
\* latest publication for its forecast_time, with the price above the user's
\* high_alert, and the user has no forecast row of the last 60 minutes and fewer
\* than 10 rows of the last hour in the alert_log.
C34_ForecastAlertCondition ==
    ForecastsJustEmitted =>
        \A i \in DOMAIN queue :
            LET a == queue[i]
                c == a.chat_id
            IN  /\ a.alert_type = "forecast"
                /\ a.region = REGIONS[stage] /\ users[c].region = a.region
                /\ \E r \in forecast :
                       /\ r.region = a.region
                       /\ r.forecast_time = a.text[4] /\ r.price_mwh = a.price
                       /\ r.forecast_time > LocalTime(clock)
                       /\ r.forecast_time <= LocalTime(clock) + ForecastHorizonMinutes
                       /\ LatestPublication(r)
                /\ a.price > users[c].high_alert
                /\ ~\E k \in DOMAIN alert_log :
                       /\ alert_log[k].chat_id = c /\ alert_log[k].alert_type = "forecast"
                       /\ alert_log[k].sent_at > clock - LongDedupMinutes
                /\ CountAlertsThisHour(alert_log, clock, c) < MaxAlertsPerHour

\* C34 witness: half an hour after the forecasts of 30, 60 and 90 minutes were
\* published with the price 300, and the last of them again with the price 150, a
\* round emits one forecast alert, for the forecast of 60 minutes.
C34_Witness ==
    /\ ForecastsJustEmitted
    /\ rounds = 1 /\ clock = Quantum
    /\ Len(queue) = 1 /\ queue[1].text[4] = LocalTime(0) + 60
    /\ \E r, q \in forecast :
           /\ r.region = "NSW1" /\ q.region = "NSW1"
           /\ r.forecast_time = LocalTime(0) + 90 /\ q.forecast_time = r.forecast_time
           /\ r.price_mwh = 300 /\ q.price_mwh = 150 /\ r.published_at < q.published_at


\* send_alerts has just been called with the alerts analyze returned for batch.
PricesJustEmitted ==
    /\ rpc = "send" /\ stage = 0
    /\ queue = sending.alerts /\ Len(alert_log) = sending.rows /\ clock = sending.at

\* The place of an alert type in the order spike, high_price, low_price, all_clear.
TypeRank(t) ==
    CASE t = "spike" -> 1
      [] t = "high_price" -> 2
      [] t = "low_price" -> 3
      [] t = "all_clear" -> 4
      [] OTHER -> 5

\* alerts is grouped by the records of prices in their order, and within one
\* record the alerts of one user are in the order of TypeRank.
GroupedByRecord(alerts, prices) ==
    \E f \in [DOMAIN alerts -> DOMAIN prices] :
        /\ \A i \in DOMAIN alerts :
               /\ alerts[i].region = prices[f[i]].region
               /\ alerts[i].price = prices[f[i]].price
        /\ \A i, j \in DOMAIN alerts :
               i < j => /\ f[i] <= f[j]
                        /\ (f[i] = f[j] /\ alerts[i].chat_id = alerts[j].chat_id)
                               => TypeRank(alerts[i].alert_type) < TypeRank(alerts[j].alert_type)

\* C35: the list analyze returns is grouped by input record in input order, and
\* within one record the alerts of one user come in the order spike, high_price,
\* low_price, all_clear; every iteration of send_alerts handles the first alert
\* of what is left of the list and leaves the rest in its order.
C35_AlertOrdering ==
    /\ [](PricesJustEmitted => GroupedByRecord(queue, batch))
    /\ [][SendStep => (/\ last'.alert = Head(queue)
                       /\ (Tail(queue) # << >> => queue' = Tail(queue)))]_vars

\* C35 witness: a round of the records VIC1 400, NSW1 -50, half an hour after
\* both users got a high price alert, returned the high price alert of the VIC1
\* user and then spike, low price and all-clear of the NSW1 user; the first two
\* are sent, the last two are left in that order.
C35_Witness ==
    /\ rounds = 2 /\ rpc = "send" /\ stage = 0
    /\ Len(sending.alerts) >= 4
    /\ batch[1].region = "VIC1" /\ batch[2].region = "NSW1"
    /\ sending.alerts[1].region = "VIC1"
    /\ \E c \in TwoChats :
           /\ users[c].region = "NSW1"
           /\ [k \in 1..3 |-> sending.alerts[Len(sending.alerts) - 3 + k].chat_id] = <<c, c, c>>
           /\ [k \in 1..3 |-> sending.alerts[Len(sending.alerts) - 3 + k].alert_type]
                  = <<"spike", "low_price", "all_clear">>
    /\ Len(queue) = 2
    /\ queue = SubSeq(sending.alerts, Len(sending.alerts) - 1, Len(sending.alerts))


\* The step ends with analyze or analyze_forecasts returning the alerts queue'.
Returned == rpc' = "send" /\ (rpc = "idle" \/ stage' # stage)

\* C36: every alert that analyze or analyze_forecasts returns is for a user who
\* has a row, is active and has the alert's region when the analysis runs; the
\* region is the one of a record of the batch with the alert's price, or the
\* analysed region of a stored forecast with the alert's price.
C36_AlertTargets ==
    [][Returned =>
          \A i \in DOMAIN queue' :
              LET a == queue'[i]
                  user == users'[a.chat_id]
              IN  /\ user.present /\ user.is_active /\ user.region = a.region
                  /\ (stage' = 0) =>
                         \E k \in DOMAIN batch' :
                             batch'[k].region = a.region /\ batch'[k].price = a.price
                  /\ (stage' > 0) =>
                         /\ a.region = REGIONS[stage']
                         /\ \E r \in forecast' :
                                r.region = a.region /\ r.price_mwh = a.price]_vars

\* C36 witness: both users are of NSW1 and got a high price alert; the send to the
\* second was refused with Forbidden, which deactivated that user; the forecast
\* analysis of NSW1 that follows, on a forecast above both thresholds, has just
\* returned alerts, all of them for the first user.
C36_Witness ==
    /\ rpc = "send" /\ stage = 1 /\ queue = sending.alerts /\ queue # << >>
    /\ handlers = << >> /\ done.reply = "none"
    /\ last.result = "forbidden" /\ last.alert.chat_id = 2
    /\ users[1].present /\ users[1].is_active /\ users[1].region = "NSW1"
    /\ users[2].present /\ ~users[2].is_active /\ users[2].region = "NSW1"
    /\ \E r \in forecast : r.region = "NSW1" /\ r.price_mwh > users[2].high_alert
    /\ \A i \in DOMAIN queue : queue[i].chat_id = 1

\* C37: an iteration of send_alerts that delivers its alert finds the alert's
\* user active.
C37_NoDeliveryToPaused ==
    [][(SendStep /\ last'.result = "ok") => users[Head(queue).chat_id].is_active]_vars


\* Chat, type, region and price of the alerts of a list.
AlertKeys(alerts) ==
    {<<alerts[i].chat_id, alerts[i].alert_type, alerts[i].region, alerts[i].price>> :
        i \in DOMAIN alerts}

\* C38: whatever queries of the Store fail, every alert the analyzers return is
\* one they return on the same Store when every query succeeds, and every alert
\* send_alerts hands to the MessageSink is one it does not drop when its count
\* query succeeds.
C38_FailClosed ==
    /\ [](PricesJustEmitted =>
             AlertKeys(queue) \subseteq
                 AlertKeys(Analyze(users, price_history, alert_log, clock, batch, AllOk)))
    /\ [](ForecastsJustEmitted =>
             AlertKeys(queue) \subseteq
                 AlertKeys(AnalyzeForecasts(users, forecast, alert_log, clock, REGIONS[stage],
                                            CurrentPrice(batch, REGIONS[stage]), AllOk)))
    /\ [][(SendStep /\ last'.result # "dropped") =>
              ~RateLimited(alert_log, clock, Head(queue).chat_id, AllOk)]_vars


\* The step is one of handle_daily_summary.
SummaryStep == summary'.run # summary.run

\* C39: a run of handle_daily_summary sends at most one message per region and
\* user, each to a user read as active in that region; its steps leave users,
\* price_history, forecast and alert_log as they are, also after a send that
\* failed, so no user's count of the hour and no dedup window changes.
C39_SummaryOutsideAccounting ==
    /\ [](\A i, j \in DOMAIN summary.run.sent :
             (/\ summary.run.sent[i].region = summary.run.sent[j].region
              /\ summary.run.sent[i].chat_id = summary.run.sent[j].chat_id) => i = j)
    /\ [][SummaryStep =>
              /\ <<users, price_history, forecast, alert_log>>'
                     = <<users, price_history, forecast, alert_log>>
              /\ \A c \in ChatIds :
                     /\ CountAlertsThisHour(alert_log', clock', c)
                            = CountAlertsThisHour(alert_log, clock, c)
                     /\ \A t \in AlertTypes :
                            WasAlertSentRecently(alert_log', clock', c, t, LongDedupMinutes)
                                = WasAlertSentRecently(alert_log, clock, c, t, LongDedupMinutes)
              /\ (Len(summary'.run.sent) > Len(summary.run.sent)) =>
                     LET m == summary'.run.sent[Len(summary'.run.sent)]
                     IN  /\ m.chat_id = Head(summary.run.todo)
                         /\ m.region = REGIONS[summary.run.region]]_vars

\* C39 witness: the run has ended; the summary to a user with an alert_log row
\* of this hour was refused with Forbidden, the user is still active and the
\* log still holds that one row; another user got the summary.
C39_Witness ==
    /\ summary.run.finished = 1 /\ Len(summary.run.sent) = 2
    /\ \E i, j \in DOMAIN summary.run.sent :
           /\ summary.run.sent[i].result = "forbidden"
           /\ users[summary.run.sent[i].chat_id].is_active
           /\ CountAlertsThisHour(alert_log, clock, summary.run.sent[i].chat_id) = 1
           /\ summary.run.sent[j].result = "ok"
           /\ summary.run.sent[j].chat_id # summary.run.sent[i].chat_id
    /\ Len(alert_log) = 1


====
